---- MODULE Spec2Model ----
(***************************************************************************)
(* A model of redgem, a gemini server that serves files from a zip file.   *)
(*                                                                         *)
(* Bytes are the integers 0..255 and byte strings are sequences of them,   *)
(* so that case folding, percent decoding and UTF-8 validation are         *)
(* computed on the byte values as the code computes them.  An Option is a  *)
(* sequence of length 0 (None) or 1 (Some).                                *)
(***************************************************************************)
EXTENDS Integers, Sequences, FiniteSets, TLC

(***************************************************************************)
(* Generic helpers on byte strings.                                        *)
(***************************************************************************)

\* F(v), with v evaluated once
Bind(v, F(_)) == CHOOSE y \in {F(x) : x \in {v}} : TRUE

\* <<1, 2, ..., n>>
Indices(n) == [i \in 1..n |-> i]

\* the first index i >= from of s whose byte is in B, Len(s) + 1 when none
FirstOf(s, B, from) ==
    LET T(i) == i >= from /\ s[i] \in B
        ix == SelectSeq(Indices(Len(s)), T)
    IN  IF ix = <<>> THEN Len(s) + 1 ELSE ix[1]

\* s[from..to], empty when from > to
Slice(s, from, to) == IF from > to THEN <<>> ELSE SubSeq(s, from, to)

\* <[u8]>::ends_with
ends_with(s, suffix) ==
    /\ Len(s) >= Len(suffix)
    /\ \A i \in 1..Len(suffix) : s[Len(s) - Len(suffix) + i] = suffix[i]

\* u8::to_ascii_lowercase
to_ascii_lowercase(b) == IF b >= 65 /\ b <= 90 THEN b + 32 ELSE b

\* str::to_ascii_lowercase
str_to_ascii_lowercase(s) == [i \in 1..Len(s) |-> to_ascii_lowercase(s[i])]

\* a comparison that tells the cases apart
eq_exact(a, b) == a = b

\* str::eq_ignore_ascii_case
eq_ignore_ascii_case(a, b) ==
    /\ Len(a) = Len(b)
    /\ \A i \in 1..Len(a) : to_ascii_lowercase(a[i]) = to_ascii_lowercase(b[i])

\* the number of bytes of the UTF-8 sequence a lead byte starts, 0 for a byte
\* that starts none
Utf8Width(b) ==
    IF b < 128 THEN 1
    ELSE IF b >= 194 /\ b <= 223 THEN 2
    ELSE IF b >= 224 /\ b <= 239 THEN 3
    ELSE IF b >= 240 /\ b <= 244 THEN 4
    ELSE 0

Utf8Cont(b) == b >= 128 /\ b <= 191

\* the range of the byte that follows lead byte b
Utf8Second(b, c) ==
    IF b = 224 THEN c >= 160 /\ c <= 191
    ELSE IF b = 237 THEN c >= 128 /\ c <= 159
    ELSE IF b = 240 THEN c >= 144 /\ c <= 191
    ELSE IF b = 244 THEN c >= 128 /\ c <= 143
    ELSE Utf8Cont(c)

\* str::from_utf8(s).is_ok()
from_utf8_ok(s) ==
    LET n == Len(s) IN
    \A i \in 1..n :
        IF Utf8Cont(s[i])
        THEN \E j \in 1..3 :
                /\ i - j >= 1
                /\ Utf8Width(s[i - j]) > j
                /\ \A k \in (i - j + 1)..(i - 1) : Utf8Cont(s[k])
        ELSE /\ Utf8Width(s[i]) >= 1
             /\ i + Utf8Width(s[i]) - 1 <= n
             /\ \A k \in (i + 1)..(i + Utf8Width(s[i]) - 1) : Utf8Cont(s[k])
             /\ Utf8Width(s[i]) >= 2 => Utf8Second(s[i], s[i + 1])

(***************************************************************************)
(* fluent_uri: Uri::parse, the RFC 3986 grammar of an absolute URI with an *)
(* optional fragment.  IP literals ("[...]" hosts) are not modelled: no    *)
(* input of the model holds a '['.                                         *)
(***************************************************************************)
Alpha == (65..90) \cup (97..122)
Digit == 48..57
HexDig == Digit \cup (65..70) \cup (97..102)
\* ALPHA / DIGIT / "-" / "." / "_" / "~"
Unreserved == Alpha \cup Digit \cup {45, 46, 95, 126}
\* "!" / "$" / "&" / "'" / "(" / ")" / "*" / "+" / "," / ";" / "="
SubDelims == {33, 36, 38, 39, 40, 41, 42, 43, 44, 59, 61}
SchemeChars == Alpha \cup Digit \cup {43, 45, 46}
\* reg-name, with '%' (checked apart)
RegNameChars == Unreserved \cup SubDelims \cup {37}
UserinfoChars == RegNameChars \cup {58}
\* path characters that admit a line feed
PathChars_with_lf == RegNameChars \cup {58, 64, 47, 10}
\* pchar and '/'
PathChars == RegNameChars \cup {58, 64, 47}
\* pchar, '/' and '?'
QueryChars == PathChars \cup {63}

AllIn(s, from, to, B) == \A i \in from..to : s[i] \in B

\* what Uri::parse yields for a text that is no URI
NoUri(s) ==
    [ok |-> FALSE, text |-> s, scheme |-> <<>>, has_authority |-> FALSE,
     authority |-> <<>>, has_userinfo |-> FALSE, host |-> <<>>, path |-> <<>>,
     has_query |-> FALSE, has_fragment |-> FALSE]

\* the URI whose parts end at the given places: the scheme before colon, the
\* authority at colon + 3..aEnd (userinfo before at, port after portColon),
\* the path up to pEnd, the query up to qEnd, the fragment up to the end
UriParts(s, colon, aEnd, at, portColon, pEnd, qEnd) ==
    LET n == Len(s)
        has_authority == aEnd > colon
        aStart == colon + 3
        has_userinfo == has_authority /\ at <= aEnd
        hStart == IF has_userinfo THEN at + 1 ELSE aStart
        hEnd == IF portColon <= aEnd THEN portColon - 1 ELSE aEnd
        pStart == IF has_authority THEN aEnd + 1 ELSE colon + 1
        has_query == pEnd + 1 <= n /\ s[pEnd + 1] = 63
        has_fragment == qEnd + 1 <= n
        ok == /\ colon <= n
              /\ colon > 1
              /\ s[1] \in Alpha
              /\ AllIn(s, 2, colon - 1, SchemeChars)
              /\ has_userinfo => AllIn(s, aStart, at - 1, UserinfoChars)
              /\ has_authority => AllIn(s, hStart, hEnd, RegNameChars)
              /\ has_authority => AllIn(s, hEnd + 2, aEnd, Digit)
              /\ AllIn(s, pStart, pEnd, PathChars)
              /\ has_query => AllIn(s, pEnd + 2, qEnd, QueryChars)
              /\ has_fragment => AllIn(s, qEnd + 2, n, QueryChars)
              /\ \A i \in 1..n : s[i] = 37 =>
                    i + 2 <= n /\ s[i + 1] \in HexDig /\ s[i + 2] \in HexDig
    IN  IF ok
        THEN [ok |-> TRUE,
              text |-> s,
              scheme |-> Slice(s, 1, colon - 1),
              has_authority |-> has_authority,
              authority |-> IF has_authority THEN Slice(s, aStart, aEnd) ELSE <<>>,
              has_userinfo |-> has_userinfo,
              host |-> IF has_authority THEN Slice(s, hStart, hEnd) ELSE <<>>,
              path |-> Slice(s, pStart, pEnd),
              has_query |-> has_query,
              has_fragment |-> has_fragment]
        ELSE NoUri(s)

\* Uri::parse: the scheme ends at the first ':'; "//" opens an authority,
\* which ends before the first '/', '?' or '#' (aEnd = colon + 2 when it is
\* empty, colon when there is none); the path ends before the first '?' or
\* '#', the query before the first '#'
UriParse(s) ==
    Bind(FirstOf(s, {58}, 1), LAMBDA colon :
    Bind(IF colon + 2 <= Len(s) /\ s[colon + 1] = 47 /\ s[colon + 2] = 47
         THEN FirstOf(s, {47, 63, 35}, colon + 3) - 1 ELSE colon, LAMBDA aEnd :
    Bind(FirstOf(s, {64}, colon + 3), LAMBDA at :
    Bind(FirstOf(s, {58}, IF aEnd > colon /\ at <= aEnd THEN at + 1 ELSE colon + 3),
         LAMBDA portColon :
    Bind(FirstOf(s, {63, 35}, IF aEnd > colon THEN aEnd + 1 ELSE colon + 1) - 1,
         LAMBDA pEnd :
    Bind(IF pEnd + 1 <= Len(s) /\ s[pEnd + 1] = 63
         THEN FirstOf(s, {35}, pEnd + 2) - 1 ELSE pEnd, LAMBDA qEnd :
    UriParts(s, colon, aEnd, at, portColon, pEnd, qEnd)))))))

\* the value of a hex digit
HexVal(b) == IF b \in Digit THEN b - 48 ELSE IF b >= 97 THEN b - 87 ELSE b - 55

\* fluent_uri: EStr::decode, every %XX of a valid component replaced by its byte
Decode(p) ==
    LET T(i) == /\ ~(i >= 2 /\ p[i - 1] = 37)
                /\ ~(i >= 3 /\ p[i - 2] = 37)
    IN  Bind(SelectSeq(Indices(Len(p)), T), LAMBDA ix :
            [k \in 1..Len(ix) |->
                IF p[ix[k]] = 37
                THEN 16 * HexVal(p[ix[k] + 1]) + HexVal(p[ix[k] + 2])
                ELSE p[ix[k]]])

(***************************************************************************)
(* server/request.rs                                                       *)
(***************************************************************************)
GEMINI == <<103, 101, 109, 105, 110, 105>>  \* "gemini"

Ok(v) == [ok |-> TRUE, err |-> "", val |-> v]
Err(e) == [ok |-> FALSE, err |-> e, val |-> NoUri(<<>>)]

\* a parse that looks for userinfo before it compares the host
RequestParse_userinfo_first(inp, expect_host) ==
    IF ~from_utf8_ok(inp) THEN Err("NonUtf8")
    ELSE Bind(UriParse(inp), LAMBDA u :
         IF ~u.ok THEN Err("UnparseableUri")
         ELSE IF ~eq_ignore_ascii_case(u.scheme, GEMINI) THEN Err("NonGeminiScheme")
         ELSE IF ~u.has_authority THEN Err("NoAuthority")
         ELSE IF u.has_userinfo THEN Err("Userinfo")
         ELSE IF expect_host # <<>> /\ ~eq_ignore_ascii_case(expect_host[1], u.host)
              THEN Err("SniMismatch")
         ELSE IF u.has_query THEN Err("HasQuery")
         ELSE IF u.has_fragment THEN Err("HasFragment")
         ELSE Ok(u))

\* a parse that does not compare the host
RequestParse_any_host(inp, expect_host) ==
    IF ~from_utf8_ok(inp) THEN Err("NonUtf8")
    ELSE Bind(UriParse(inp), LAMBDA u :
         IF ~u.ok THEN Err("UnparseableUri")
         ELSE IF ~eq_ignore_ascii_case(u.scheme, GEMINI) THEN Err("NonGeminiScheme")
         ELSE IF ~u.has_authority THEN Err("NoAuthority")
         ELSE IF u.has_userinfo THEN Err("Userinfo")
         ELSE IF u.has_query THEN Err("HasQuery")
         ELSE IF u.has_fragment THEN Err("HasFragment")
         ELSE Ok(u))

\* Request::parse(inp, expect_host); expect_host is an Option
RequestParse(inp, expect_host) ==
    IF ~from_utf8_ok(inp) THEN Err("NonUtf8")
    ELSE Bind(UriParse(inp), LAMBDA u :
         IF ~u.ok THEN Err("UnparseableUri")
         ELSE IF ~eq_ignore_ascii_case(u.scheme, GEMINI) THEN Err("NonGeminiScheme")
         ELSE IF ~u.has_authority THEN Err("NoAuthority")
         ELSE IF expect_host # <<>> /\ ~eq_ignore_ascii_case(expect_host[1], u.host)
              THEN Err("SniMismatch")
         ELSE IF u.has_userinfo THEN Err("Userinfo")
         ELSE IF u.has_query THEN Err("HasQuery")
         ELSE IF u.has_fragment THEN Err("HasFragment")
         ELSE Ok(u))

\* Request::pathname
pathname(req) == Decode(req.path)

\* Request::as_str
as_str(req) == req.text

\* fluent_uri: Builder::build of scheme, authority and path
UriBuild(scheme, authority, path) ==
    UriParse(scheme \o <<58, 47, 47>> \o authority \o path)

\* a with_trailing that adds nothing to the path
with_trailing_same(req) ==
    LET uri == UriBuild(req.scheme, req.authority, req.path)
    IN  IF uri.ok THEN Ok(uri) ELSE Err("UriBuild")

\* a with_trailing that adds "/." to the path
with_trailing_dot(req) ==
    LET uri == UriBuild(req.scheme, req.authority, req.path \o <<47, 46>>)
    IN  IF uri.ok THEN Ok(uri) ELSE Err("UriBuild")

\* Request::with_trailing
with_trailing(req) ==
    LET uri == UriBuild(req.scheme, req.authority, req.path \o <<47>>)
    IN  IF uri.ok THEN Ok(uri) ELSE Err("UriBuild")

(***************************************************************************)
(* std::path.  A PathBuf is a byte string; two paths are equal, and are    *)
(* the same BTreeMap key, when their components are equal, so a path is    *)
(* looked up by Components.  Every path of the model is absolute.          *)
(***************************************************************************)
DOT == <<46>>
DOTDOT == <<46, 46>>

\* Path::components of an absolute path, the root left out: the pieces
\* between '/' bytes, without the empty ones and the "." ones
Components(p) ==
    LET IsSep(i) == p[i] = 47
        Kept(c) == c # <<>> /\ c # DOT
    IN  Bind(<<0>> \o SelectSeq(Indices(Len(p)), IsSep) \o <<Len(p) + 1>>, LAMBDA sl :
            SelectSeq([k \in 1..(Len(sl) - 1) |-> Slice(p, sl[k] + 1, sl[k + 1] - 1)],
                      Kept))

\* Path::new("/").join(p)
RootJoin(p) == IF p # <<>> /\ p[1] = 47 THEN p ELSE <<47>> \o p

\* Path::file_name, an Option, of a path given by its components
file_name(comps) ==
    IF comps = <<>> \/ comps[Len(comps)] = DOTDOT
    THEN <<>>
    ELSE <<comps[Len(comps)]>>

\* PathBuf::pop of a path given by its components
pop(comps) == Slice(comps, 1, Len(comps) - 1)

\* Path::extension, an Option, of a path given by its components
extension(comps) ==
    IF file_name(comps) = <<>> THEN <<>>
    ELSE LET f == file_name(comps)[1]
             IsDot(i) == f[i] = 46
             dots == SelectSeq(Indices(Len(f)), IsDot)
             last == IF dots = <<>> THEN 0 ELSE dots[Len(dots)]
         IN  IF last <= 1 THEN <<>> ELSE <<Slice(f, last + 1, Len(f))>>

(***************************************************************************)
(* server/response.rs                                                      *)
(***************************************************************************)
\* MimeType::from_extension's table: the (domtype, subtype) of a lowercased extension
MimeTable(e) ==
    CASE e \in {<<99>>, <<99, 99>>, <<99, 112, 112>>, <<99, 120, 120>>, <<104>>, <<104, 104>>, <<104, 112, 112>>, <<104, 120, 120>>, <<114, 115>>}
        -> << <<116, 101, 120, 116>>, <<120, 45, 99>> >>  \* c cc cpp cxx h hh hpp hxx rs: text/x-c
      [] e \in {<<99, 115, 115>>}
        -> << <<116, 101, 120, 116>>, <<99, 115, 115>> >>  \* css: text/css
      [] e \in {<<99, 115, 118>>}
        -> << <<116, 101, 120, 116>>, <<99, 115, 118>> >>  \* csv: text/csv
      [] e \in {<<100, 105, 102, 102>>}
        -> << <<116, 101, 120, 116>>, <<120, 45, 100, 105, 102, 102>> >>  \* diff: text/x-diff
      [] e \in {<<103, 105, 102>>}
        -> << <<105, 109, 97, 103, 101>>, <<103, 105, 102>> >>  \* gif: image/gif
      [] e \in {<<103, 109, 105>>, <<103, 101, 109, 105, 110, 105>>}
        -> << <<116, 101, 120, 116>>, <<103, 101, 109, 105, 110, 105>> >>  \* gmi gemini: text/gemini
      [] e \in {<<103, 111>>}
        -> << <<116, 101, 120, 116>>, <<120, 45, 103, 111>> >>  \* go: text/x-go
      [] e \in {<<103, 112, 117, 98>>}
        -> << <<97, 112, 112, 108, 105, 99, 97, 116, 105, 111, 110>>, <<103, 112, 117, 98, 43, 122, 105, 112>> >>  \* gpub: application/gpub+zip
      [] e \in {<<104, 116, 109, 108>>, <<104, 116, 109>>}
        -> << <<116, 101, 120, 116>>, <<104, 116, 109, 108>> >>  \* html htm: text/html
      [] e \in {<<106, 112, 101, 103>>, <<106, 112, 103>>}
        -> << <<105, 109, 97, 103, 101>>, <<106, 112, 101, 103>> >>  \* jpeg jpg: image/jpeg
      [] e \in {<<106, 115>>, <<109, 106, 115>>}
        -> << <<116, 101, 120, 116>>, <<106, 97, 118, 97, 115, 99, 114, 105, 112, 116>> >>  \* js mjs: text/javascript
      [] e \in {<<106, 115, 111, 110>>}
        -> << <<97, 112, 112, 108, 105, 99, 97, 116, 105, 111, 110>>, <<106, 115, 111, 110>> >>  \* json: application/json
      [] e \in {<<109, 51, 117>>}
        -> << <<97, 117, 100, 105, 111>>, <<120, 45, 109, 112, 101, 103, 117, 114, 108>> >>  \* m3u: audio/x-mpegurl
      [] e \in {<<109, 100>>, <<109, 100, 119, 110>>, <<109, 97, 114, 107, 100, 111, 119, 110>>}
        -> << <<116, 101, 120, 116>>, <<109, 97, 114, 107, 100, 111, 119, 110>> >>  \* md mdwn markdown: text/markdown
      [] e \in {<<109, 112, 51>>}
        -> << <<97, 117, 100, 105, 111>>, <<109, 112, 101, 103>> >>  \* mp3: audio/mpeg
      [] e \in {<<109, 112, 52>>}
        -> << <<118, 105, 100, 101, 111>>, <<109, 112, 52>> >>  \* mp4: video/mp4
      [] e \in {<<111, 103, 103>>}
        -> << <<97, 112, 112, 108, 105, 99, 97, 116, 105, 111, 110>>, <<111, 103, 103>> >>  \* ogg: application/ogg
      [] e \in {<<112, 97, 116, 99, 104>>}
        -> << <<116, 101, 120, 116>>, <<120, 45, 112, 97, 116, 99, 104>> >>  \* patch: text/x-patch
      [] e \in {<<112, 100, 102>>}
        -> << <<97, 112, 112, 108, 105, 99, 97, 116, 105, 111, 110>>, <<112, 100, 102>> >>  \* pdf: application/pdf
      [] e \in {<<112, 110, 103>>}
        -> << <<105, 109, 97, 103, 101>>, <<112, 110, 103>> >>  \* png: image/png
      [] e \in {<<112, 121>>}
        -> << <<116, 101, 120, 116>>, <<120, 45, 115, 99, 114, 105, 112, 116, 46, 112, 121, 116, 104, 111, 110>> >>  \* py: text/x-script.python
      [] e \in {<<115, 104>>}
        -> << <<116, 101, 120, 116>>, <<120, 45, 115, 104, 101, 108, 108, 115, 99, 114, 105, 112, 116>> >>  \* sh: text/x-shellscript
      [] e \in {<<115, 118, 103>>}
        -> << <<105, 109, 97, 103, 101>>, <<115, 118, 103, 43, 120, 109, 108>> >>  \* svg: image/svg+xml
      [] e \in {<<116, 111, 114, 114, 101, 110, 116>>}
        -> << <<97, 112, 112, 108, 105, 99, 97, 116, 105, 111, 110>>, <<120, 45, 98, 105, 116, 116, 111, 114, 114, 101, 110, 116>> >>  \* torrent: application/x-bittorrent
      [] e \in {<<116, 115, 118>>}
        -> << <<116, 101, 120, 116>>, <<116, 97, 98, 45, 115, 101, 112, 97, 114, 97, 116, 101, 100, 45, 118, 97, 108, 117, 101, 115>> >>  \* tsv: text/tab-separated-values
      [] e \in {<<116, 120, 116>>, <<97, 115, 99>>, <<99, 111, 110, 102>>, <<101, 108>>, <<108, 111, 103>>, <<108, 117, 97>>, <<110, 105, 120>>, <<111, 114, 103>>, <<112, 109>>, <<116, 97, 108>>, <<116, 101, 120, 116>>, <<116, 111, 109, 108>>, <<118, 102>>, <<121, 109, 108>>, <<121, 97, 109, 108>>}
        -> << <<116, 101, 120, 116>>, <<112, 108, 97, 105, 110>> >>  \* txt asc conf el log lua nix org pm tal text toml vf yml yaml: text/plain
      [] e \in {<<118, 99, 102>>, <<118, 99, 97, 114, 100>>}
        -> << <<116, 101, 120, 116>>, <<118, 99, 97, 114, 100>> >>  \* vcf vcard: text/vcard
      [] e \in {<<119, 97, 115, 109>>}
        -> << <<97, 112, 112, 108, 105, 99, 97, 116, 105, 111, 110>>, <<119, 97, 115, 109>> >>  \* wasm: application/wasm
      [] e \in {<<119, 97, 118>>}
        -> << <<97, 117, 100, 105, 111>>, <<120, 45, 119, 97, 118>> >>  \* wav: audio/x-wav
      [] e \in {<<119, 101, 98, 109>>}
        -> << <<118, 105, 100, 101, 111>>, <<119, 101, 98, 109>> >>  \* webm: video/webm
      [] e \in {<<119, 101, 98, 112>>}
        -> << <<105, 109, 97, 103, 101>>, <<119, 101, 98, 112>> >>  \* webp: image/webp
      [] e \in {<<120, 109, 108>>, <<120, 115, 108>>}
        -> << <<116, 101, 120, 116>>, <<120, 109, 108>> >>  \* xml xsl: text/xml
      [] e \in {<<122, 105, 112>>}
        -> << <<97, 112, 112, 108, 105, 99, 97, 116, 105, 111, 110>>, <<122, 105, 112>> >>  \* zip: application/zip
      [] e \in {<<122, 115, 116, 100>>, <<122, 115, 116>>}
        -> << <<97, 112, 112, 108, 105, 99, 97, 116, 105, 111, 110>>, <<122, 115, 116, 100>> >>  \* zstd zst: application/zstd
      [] OTHER -> << <<97, 112, 112, 108, 105, 99, 97, 116, 105, 111, 110>>, <<111, 99, 116, 101, 116, 45, 115, 116, 114, 101, 97, 109>> >>  \* application/octet-stream

TEXT_GEMINI == << <<116, 101, 120, 116>>, <<103, 101, 109, 105, 110, 105>> >>

\* a from_extension that compares the extension as it is written
from_extension_exact(ext) ==
    IF ext = <<>> \/ ~from_utf8_ok(ext[1])
    THEN TEXT_GEMINI
    ELSE MimeTable(ext[1])

\* MimeType::from_extension(ext); ext is an Option
from_extension(ext) ==
    IF ext = <<>> \/ ~from_utf8_ok(ext[1])
    THEN TEXT_GEMINI
    ELSE MimeTable(str_to_ascii_lowercase(ext[1]))

\* MimeType::bytes_append
bytes_append(mimetype, target) == target \o mimetype[1] \o <<47>> \o mimetype[2]

\* an Error::bytes that answers a foreign scheme with code 59
ErrorBytes_scheme_59(kind) ==
    CASE kind \in {"HeaderTooLong"} ->
        \* 59 header too long\r\n
        <<53, 57, 32, 104, 101, 97, 100, 101, 114, 32, 116, 111, 111, 32, 108, 111, 110, 103, 13, 10>>
      [] kind \in {"NonUtf8", "UnparseableUri"} ->
        \* 59 cannot parse url\r\n
        <<53, 57, 32, 99, 97, 110, 110, 111, 116, 32, 112, 97, 114, 115, 101, 32, 117, 114, 108, 13, 10>>
      [] kind \in {"NonGeminiScheme"} ->
        \* 59 gemini scheme required\r\n
        <<53, 57, 32, 103, 101, 109, 105, 110, 105, 32, 115, 99, 104, 101, 109, 101, 32, 114, 101, 113, 117, 105, 114, 101, 100, 13, 10>>
      [] kind \in {"NoAuthority"} ->
        \* 59 missing url authority\r\n
        <<53, 57, 32, 109, 105, 115, 115, 105, 110, 103, 32, 117, 114, 108, 32, 97, 117, 116, 104, 111, 114, 105, 116, 121, 13, 10>>
      [] kind \in {"Userinfo"} ->
        \* 59 your client leaks url userinfo! please report this\r\n
        <<53, 57, 32, 121, 111, 117, 114, 32, 99, 108, 105, 101, 110, 116, 32, 108, 101, 97, 107, 115, 32, 117, 114, 108, 32, 117, 115, 101, 114, 105, 110, 102, 111, 33, 32, 112, 108, 101, 97, 115, 101, 32, 114, 101, 112, 111, 114, 116, 32, 116, 104, 105, 115, 13, 10>>
      [] kind \in {"HasFragment"} ->
        \* 59 your client leaks url fragments! please report this\r\n
        <<53, 57, 32, 121, 111, 117, 114, 32, 99, 108, 105, 101, 110, 116, 32, 108, 101, 97, 107, 115, 32, 117, 114, 108, 32, 102, 114, 97, 103, 109, 101, 110, 116, 115, 33, 32, 112, 108, 101, 97, 115, 101, 32, 114, 101, 112, 111, 114, 116, 32, 116, 104, 105, 115, 13, 10>>
      [] kind \in {"NotFound"} ->
        \* 51 not found\r\n
        <<53, 49, 32, 110, 111, 116, 32, 102, 111, 117, 110, 100, 13, 10>>
      [] kind \in {"BadEntry"} ->
        \* 40 failed to open zip entry\r\n
        <<52, 48, 32, 102, 97, 105, 108, 101, 100, 32, 116, 111, 32, 111, 112, 101, 110, 32, 122, 105, 112, 32, 101, 110, 116, 114, 121, 13, 10>>
      [] kind \in {"Timeout"} ->
        \* 40 timed out\r\n
        <<52, 48, 32, 116, 105, 109, 101, 100, 32, 111, 117, 116, 13, 10>>
      [] kind \in {"UriBuild"} ->
        \* 40 failed to build uri\r\n
        <<52, 48, 32, 102, 97, 105, 108, 101, 100, 32, 116, 111, 32, 98, 117, 105, 108, 100, 32, 117, 114, 105, 13, 10>>

(***************************************************************************)
(* server/mod.rs: the error kinds and their status lines                   *)
(***************************************************************************)
\* Error::bytes
ErrorBytes(kind) ==
    CASE kind \in {"HeaderTooLong"} ->
        \* 59 header too long\r\n
        <<53, 57, 32, 104, 101, 97, 100, 101, 114, 32, 116, 111, 111, 32, 108, 111, 110, 103, 13, 10>>
      [] kind \in {"NonUtf8", "UnparseableUri"} ->
        \* 59 cannot parse url\r\n
        <<53, 57, 32, 99, 97, 110, 110, 111, 116, 32, 112, 97, 114, 115, 101, 32, 117, 114, 108, 13, 10>>
      [] kind \in {"NonGeminiScheme"} ->
        \* 53 gemini scheme required\r\n
        <<53, 51, 32, 103, 101, 109, 105, 110, 105, 32, 115, 99, 104, 101, 109, 101, 32, 114, 101, 113, 117, 105, 114, 101, 100, 13, 10>>
      [] kind \in {"NoAuthority"} ->
        \* 59 missing url authority\r\n
        <<53, 57, 32, 109, 105, 115, 115, 105, 110, 103, 32, 117, 114, 108, 32, 97, 117, 116, 104, 111, 114, 105, 116, 121, 13, 10>>
      [] kind \in {"Userinfo"} ->
        \* 59 your client leaks url userinfo! please report this\r\n
        <<53, 57, 32, 121, 111, 117, 114, 32, 99, 108, 105, 101, 110, 116, 32, 108, 101, 97, 107, 115, 32, 117, 114, 108, 32, 117, 115, 101, 114, 105, 110, 102, 111, 33, 32, 112, 108, 101, 97, 115, 101, 32, 114, 101, 112, 111, 114, 116, 32, 116, 104, 105, 115, 13, 10>>
      [] kind \in {"HasFragment"} ->
        \* 59 your client leaks url fragments! please report this\r\n
        <<53, 57, 32, 121, 111, 117, 114, 32, 99, 108, 105, 101, 110, 116, 32, 108, 101, 97, 107, 115, 32, 117, 114, 108, 32, 102, 114, 97, 103, 109, 101, 110, 116, 115, 33, 32, 112, 108, 101, 97, 115, 101, 32, 114, 101, 112, 111, 114, 116, 32, 116, 104, 105, 115, 13, 10>>
      [] kind \in {"NotFound"} ->
        \* 51 not found\r\n
        <<53, 49, 32, 110, 111, 116, 32, 102, 111, 117, 110, 100, 13, 10>>
      [] kind \in {"BadEntry"} ->
        \* 40 failed to open zip entry\r\n
        <<52, 48, 32, 102, 97, 105, 108, 101, 100, 32, 116, 111, 32, 111, 112, 101, 110, 32, 122, 105, 112, 32, 101, 110, 116, 114, 121, 13, 10>>
      [] kind \in {"Timeout"} ->
        \* 40 timed out\r\n
        <<52, 48, 32, 116, 105, 109, 101, 100, 32, 111, 117, 116, 13, 10>>
      [] kind \in {"UriBuild"} ->
        \* 40 failed to build uri\r\n
        <<52, 48, 32, 102, 97, 105, 108, 101, 100, 32, 116, 111, 32, 98, 117, 105, 108, 100, 32, 117, 114, 105, 13, 10>>

\* The status lines of the two kinds Request::parse returns that Error::bytes
\* has no arm for.  Section 7 of the specification gives them a fixed 59
\* status; the text after the code is the kind's name.
LaterErrorBytes(kind) ==
    CASE kind = "SniMismatch" ->
        \* 59 sni mismatch\r\n
        <<53, 57, 32, 115, 110, 105, 32, 109, 105, 115, 109, 97, 116, 99, 104, 13, 10>>
      [] kind = "HasQuery" ->
        \* 59 has query\r\n
        <<53, 57, 32, 104, 97, 115, 32, 113, 117, 101, 114, 121, 13, 10>>

StatusLine(kind) ==
    IF kind \in {"SniMismatch", "HasQuery"} THEN LaterErrorBytes(kind) ELSE ErrorBytes(kind)

(***************************************************************************)
(* server/response.rs: Response and the reader it turns into               *)
(***************************************************************************)
NoRequest == NoUri(<<>>)
NoMime == << <<>>, <<>> >>

\* Response::with_type; the body is the archive entry's byte stream
with_type(mimetype, body) ==
    [kind |-> "Success", mimetype |-> mimetype, body |-> body,
     err |-> "", to |-> NoRequest]

\* Response::permanent_redirect
permanent_redirect(to) ==
    [kind |-> "PermanentRedirect", mimetype |-> NoMime, body |-> <<>>,
     err |-> "", to |-> to]

\* impl From<Error> for Response
Failure(err) ==
    [kind |-> "Failure", mimetype |-> NoMime, body |-> <<>>,
     err |-> err, to |-> NoRequest]

\* a chain that takes its header for read from the start
chain_done(first, second) ==
    [variant |-> "Chain", first |-> first, pos |-> 0,
     second |-> second, bpos |-> 0, done_first |-> TRUE]

\* OptionalChain::chain: first is a Cursor (its bytes and position)
chain(first, second) ==
    [variant |-> "Chain", first |-> first, pos |-> 0,
     second |-> second, bpos |-> 0, done_first |-> FALSE]

\* OptionalChain::single
single(first) ==
    [variant |-> "Single", first |-> first, pos |-> 0,
     second |-> <<>>, bpos |-> 0, done_first |-> FALSE]

\* Response::into_read
into_read(response) ==
    CASE response.kind = "Success" ->
            chain(bytes_append(response.mimetype, <<50, 48, 32>>) \o <<13, 10>>,
                  response.body)
      [] response.kind = "Failure" ->
            single(StatusLine(response.err))
      [] response.kind = "PermanentRedirect" ->
            single(<<51, 49, 32>> \o as_str(response.to) \o <<13, 10>>)

Min(a, b) == IF a <= b THEN a ELSE b

\* Cursor::poll_read into a buffer with cap bytes left: the bytes it yields
CursorRead(first, pos, cap) == Slice(first, pos + 1, Min(Len(first), pos + cap))

\* a poll_read that switches as soon as the header's last byte was read
poll_read_eager(r, cap, n) ==
    LET got == CursorRead(r.first, r.pos, cap)
        body == Slice(r.second, r.bpos + 1, Min(Len(r.second), r.bpos + Min(cap, n)))
    IN  IF r.variant = "Chain"
        THEN IF ~r.done_first /\ got # <<>>
             THEN <<[r EXCEPT !.pos = r.pos + Len(got),
                              !.done_first = (r.pos + Len(got) = Len(r.first))], got>>
             ELSE <<[r EXCEPT !.done_first = TRUE, !.bpos = r.bpos + Len(body)], body>>
        ELSE <<[r EXCEPT !.pos = r.pos + Len(got)], got>>

\* a poll_read that switches when the header yields less than the buffer takes
poll_read_short(r, cap, n) ==
    LET got == CursorRead(r.first, r.pos, cap)
        body == Slice(r.second, r.bpos + 1, Min(Len(r.second), r.bpos + Min(cap, n)))
    IN  IF r.variant = "Chain"
        THEN IF ~r.done_first /\ got # <<>>
             THEN <<[r EXCEPT !.pos = r.pos + Len(got),
                              !.done_first = (Len(got) < cap)], got>>
             ELSE <<[r EXCEPT !.done_first = TRUE, !.bpos = r.bpos + Len(body)], body>>
        ELSE <<[r EXCEPT !.pos = r.pos + Len(got)], got>>

\* a poll_read that returns at the switch without a read of the body
poll_read_stop(r, cap, n) ==
    LET got == CursorRead(r.first, r.pos, cap)
        body == Slice(r.second, r.bpos + 1, Min(Len(r.second), r.bpos + Min(cap, n)))
    IN  IF r.variant = "Chain"
        THEN IF ~r.done_first /\ got # <<>>
             THEN <<[r EXCEPT !.pos = r.pos + Len(got)], got>>
             ELSE IF ~r.done_first
             THEN <<[r EXCEPT !.done_first = TRUE], <<>> >>
             ELSE <<[r EXCEPT !.bpos = r.bpos + Len(body)], body>>
        ELSE <<[r EXCEPT !.pos = r.pos + Len(got)], got>>

\* OptionalChain::poll_read into a buffer with cap bytes left, the body source
\* yielding at most n bytes: <<the reader after the call, the bytes read>>
poll_read(r, cap, n) ==
    LET got == CursorRead(r.first, r.pos, cap)
        body == Slice(r.second, r.bpos + 1, Min(Len(r.second), r.bpos + Min(cap, n)))
    IN  IF r.variant = "Chain"
        THEN IF ~r.done_first /\ got # <<>>
             THEN <<[r EXCEPT !.pos = r.pos + Len(got)], got>>
             ELSE <<[r EXCEPT !.done_first = TRUE, !.bpos = r.bpos + Len(body)], body>>
        ELSE <<[r EXCEPT !.pos = r.pos + Len(got)], got>>


(***************************************************************************)
(* server/mod.rs: Server                                                   *)
(***************************************************************************)
INDEX_GMI == <<105, 110, 100, 101, 120, 46, 103, 109, 105>>  \* "index.gmi"
CRLF == <<13, 10>>

\* async_zip: StoredZipEntry::dir, the filename ends with '/'
dir(entry) == ends_with(entry.filename, <<47>>)

\* a map in which the first value of a key stays
insert_keep_first(index, key, value) ==
    [k \in DOMAIN index \cup {key} |-> IF k \in DOMAIN index THEN index[k] ELSE value]

\* BTreeMap::insert
insert(index, key, value) ==
    [k \in DOMAIN index \cup {key} |-> IF k = key THEN value ELSE index[k]]

\* a loop body that gives a directory no key for its index.gmi
from_zip_entry_no_alias(index, i, entry) ==
    IF dir(entry) THEN index
    ELSE insert(index, Components(RootJoin(entry.filename)),
                [id |-> i, is_index |-> FALSE])

\* a loop body that does not skip directory entries
from_zip_entry_with_dirs(index, i, entry) ==
    LET path == Components(RootJoin(entry.filename))
        aliased == IF file_name(path) = <<INDEX_GMI>>
                   THEN insert(index, pop(path), [id |-> i, is_index |-> TRUE])
                   ELSE index
    IN  insert(aliased, path, [id |-> i, is_index |-> FALSE])

\* the body of from_zip's loop for the entry of id i (entries[i + 1])
from_zip_entry(index, i, entry) ==
    IF dir(entry) THEN index
    ELSE LET path == Components(RootJoin(entry.filename))
             aliased == IF file_name(path) = <<INDEX_GMI>>
                        THEN insert(index, pop(path), [id |-> i, is_index |-> TRUE])
                        ELSE index
         IN  insert(aliased, path, [id |-> i, is_index |-> FALSE])

RECURSIVE from_zip_loop(_, _, _)
from_zip_loop(entries, i, index) ==
    IF i >= Len(entries) THEN index
    ELSE from_zip_loop(entries, i + 1, from_zip_entry(index, i, entries[i + 1]))

\* Server::from_zip: the index, a map from path components to (id, is_index)
from_zip(entries) == from_zip_loop(entries, 0, <<>>)

\* a get_file for which no path has a trailing slash
trailing_never(bytes) == FALSE

\* a get_file that does not pretend for the empty path
trailing_nonempty(bytes) == ends_with(bytes, <<47>>)

\* get_file: pretend that an empty path has a trailing '/'
trailing(bytes) == bytes = <<>> \/ ends_with(bytes, <<47>>)

\* Server::get_file up to the call of reader_with_entry: the response when it
\* is decided without the archive (done), else the entry to open and the
\* mimetype of the response
get_file_lookup(index, req) ==
    LET bytes == pathname(req)
        is_trailing == trailing(bytes)
        path == Components(RootJoin(bytes))
        Done(r) == [done |-> TRUE, response |-> r, id |-> 0, mimetype |-> NoMime]
    IN  IF path \notin DOMAIN index THEN Done(Failure("NotFound"))
        ELSE LET id == index[path].id
                 is_index == index[path].is_index
             IN  IF ~is_index /\ is_trailing THEN Done(Failure("NotFound"))
                 ELSE IF is_index /\ ~is_trailing
                 THEN LET new == with_trailing(req)
                      IN  IF new.ok THEN Done(permanent_redirect(new.val))
                          ELSE Done(Failure(new.err))
                 ELSE [done |-> FALSE, response |-> Failure(""), id |-> id,
                       mimetype |-> from_extension(IF is_index THEN <<>>
                                                    ELSE extension(path))]

(***************************************************************************)
(* The state of the server and of one connection; the connections of the   *)
(* other tasks are kept aside in spawned.                                  *)
(***************************************************************************)
VARIABLES
    zip,           \* the archive: its entries (filename, data) in order
    index,         \* Server.index
    server_name,   \* the hostname the peer claimed in the handshake, an Option
    wire,          \* the bytes the peer sends on the connection
    pc,            \* where the connection's task is
    len,           \* parse_req: the bytes of buffer that are filled
    request,       \* the Result parse_req returned
    opened,        \* the id reader_with_entry was called with, an Option
    response,      \* the Response that is sent
    reader,        \* send_response: response.into_read()
    out,           \* the bytes written to the stream
    copied,        \* how copy ended: "", "ok", "err"; "cancelled" by the deadline
    close_notify,  \* stream.shutdown() was called
    spawned        \* the other tasks handle_tcp spawned: their connections

vars == <<zip, index, server_name, wire, pc, len, request, opened, response,
          reader, out, copied, close_notify, spawned>>

\* the size of parse_req's buffer
BufSize == 1026

\* the most bytes one socket read or one read of an archive entry yields,
\* when it does not yield all there is
MaxChunk == 3
\* the most room tokio's copy offers the reader in one poll_read
MaxCap == 3

\* the expected hostname parse_req hands to Request::parse
expect_host == server_name

NoResponse == Failure("")
NoReader == single(<<>>)

InitWith(archives, wires, names, at) ==
    /\ zip \in archives
    /\ index = from_zip(zip)
    /\ server_name \in names
    /\ wire \in wires
    /\ pc = at
    /\ len = 0
    /\ request = Err("")
    /\ opened = <<>>
    /\ response = NoResponse
    /\ reader = NoReader
    /\ out = <<>>
    /\ copied = ""
    /\ close_notify = FALSE
    /\ spawned = <<>>

(***************************************************************************)
(* main.rs, handle_tcp: the task spawned for an accepted socket            *)
(***************************************************************************)
\* acceptor.accept(sock) completes within its deadline
AcceptOk ==
    /\ pc = "accept"
    /\ pc' = "parse_req"
    /\ UNCHANGED <<zip, index, spawned, server_name, wire, len, request, opened, response,
                   reader, out, copied, close_notify>>

\* a task that answers a failed handshake with the Timeout failure
AcceptFail_status ==
    /\ pc = "accept"
    /\ response' = Failure("Timeout")
    /\ reader' = into_read(response')
    /\ pc' = "send"
    /\ UNCHANGED <<zip, index, spawned, server_name, wire, len, request, opened,
                   out, copied, close_notify>>

\* the handshake fails, or its 10 s deadline expires: the task returns
AcceptFail ==
    /\ pc = "accept"
    /\ pc' = "done"
    /\ UNCHANGED <<zip, index, spawned, server_name, wire, len, request, opened, response,
                   reader, out, copied, close_notify>>

(***************************************************************************)
(* Server::handle_connection and Server::parse_req                         *)
(***************************************************************************)
\* what send_response starts from
Send(r) ==
    /\ response' = r
    /\ reader' = into_read(r)
    /\ pc' = "send"

\* a buffer one byte larger than the program's
capacity_1027 == BufSize + 1 - len

\* buffer[len..].len(): the room stream.read is given
capacity == BufSize - len

\* what precedes the first place of suffix (two bytes) in s, an Option
strip_at_first(s, suffix) ==
    LET at == { i \in 1..(Len(s) - 1) : s[i] = suffix[1] /\ s[i + 1] = suffix[2] }
    IN  IF at = {} THEN <<>>
        ELSE <<Slice(s, 1, (CHOOSE i \in at : \A j \in at : i <= j) - 1)>>

\* <[u8]>::strip_suffix, an Option
strip_suffix(s, suffix) ==
    IF ends_with(s, suffix) THEN <<Slice(s, 1, Len(s) - Len(suffix))>> ELSE <<>>

\* parse_req returns r; its buffer and len are gone
Return(r) ==
    /\ pc' = "dispatch"
    /\ len' = 0
    /\ request' = r

\* one turn of parse_req's loop in which stream.read yields count >= 1 bytes
Read(count) ==
    /\ pc = "parse_req"
    /\ count >= 1
    /\ count <= capacity
    /\ count <= Len(wire) - len
    /\ LET buf == strip_suffix(Slice(wire, 1, len + count), CRLF)
       IN  IF buf # <<>>
           THEN Return(RequestParse(buf[1], expect_host))
           ELSE len' = len + count /\ UNCHANGED <<request, pc>>
    /\ UNCHANGED <<zip, index, spawned, server_name, wire, opened, response, reader, out,
                   copied, close_notify>>

\* the peer's bytes arrive in pieces of any size: a read yields a few bytes,
\* or all that is left and fits
ReadSome ==
    \E count \in (1..MaxChunk) \cup {Min(capacity, Len(wire) - len)} : Read(count)

\* stream.read yields Ok(0): the buffer is full (the slice read into is
\* empty), or the peer has closed its side after the bytes of wire
ReadZero ==
    /\ pc = "parse_req"
    /\ capacity = 0 \/ len = Len(wire)
    /\ Return(Err("HeaderTooLong"))
    /\ UNCHANGED <<zip, index, spawned, server_name, wire, opened, response, reader,
                   out, copied, close_notify>>

\* a parse_req whose failed read ends the task without a response
ReadErr_drop ==
    /\ pc = "parse_req"
    /\ len' = 0
    /\ pc' = "done"
    /\ UNCHANGED <<zip, index, spawned, server_name, wire, request, opened, response,
                   reader, out, copied, close_notify>>

\* stream.read yields Err
ReadErr ==
    /\ pc = "parse_req"
    /\ Return(Err("HeaderTooLong"))
    /\ UNCHANGED <<zip, index, spawned, server_name, wire, opened, response, reader,
                   out, copied, close_notify>>

\* a handle_connection that returns at the deadline without a response
HeaderTimeout_silent ==
    /\ pc = "parse_req"
    /\ capacity > 0
    /\ len' = 0
    /\ pc' = "done"
    /\ UNCHANGED <<zip, index, spawned, server_name, wire, request, opened, response,
                   reader, out, copied, close_notify>>

\* the 30 s deadline of parse_req expires while a read is pending (a read
\* into the full buffer is never pending): Error::Timeout is sent
HeaderTimeout ==
    /\ pc = "parse_req"
    /\ capacity > 0
    /\ len' = 0
    /\ Send(Failure("Timeout"))
    /\ UNCHANGED <<zip, index, spawned, server_name, wire, request, opened, out,
                   copied, close_notify>>

\* handle_connection after parse_req returned: the match on request, and
\* get_file up to reader_with_entry
\* a dispatch that hands a failed request to the archive all the same
Dispatch_open_first ==
    /\ pc = "dispatch"
    /\ IF request.ok
       THEN LET g == get_file_lookup(index, request.val)
            IN  IF g.done
                THEN Send(g.response) /\ UNCHANGED opened
                ELSE /\ opened' = <<g.id>>
                     /\ pc' = "open"
                     /\ UNCHANGED <<response, reader>>
       ELSE /\ opened' = <<0>>
            /\ pc' = "open"
            /\ UNCHANGED <<response, reader>>
    /\ UNCHANGED <<zip, index, spawned, server_name, wire, len, request, out, copied,
                   close_notify>>

Dispatch ==
    /\ pc = "dispatch"
    /\ IF request.ok
       THEN LET g == get_file_lookup(index, request.val)
            IN  IF g.done
                THEN Send(g.response) /\ UNCHANGED opened
                ELSE /\ opened' = <<g.id>>
                     /\ pc' = "open"
                     /\ UNCHANGED <<response, reader>>
       ELSE Send(Failure(request.err)) /\ UNCHANGED opened
    /\ UNCHANGED <<zip, index, spawned, server_name, wire, len, request, out, copied,
                   close_notify>>

\* reader_with_entry(id) yields the entry
OpenOk ==
    /\ pc = "open"
    /\ Send(with_type(get_file_lookup(index, request.val).mimetype,
                      zip[opened[1] + 1].data))
    /\ UNCHANGED <<zip, index, spawned, server_name, wire, len, request, opened, out,
                   copied, close_notify>>

\* a failed open that makes the server forget its index
OpenFail_forget ==
    /\ pc = "open"
    /\ Send(Failure("BadEntry"))
    /\ index' = <<>>
    /\ UNCHANGED <<zip, spawned, server_name, wire, len, request, opened, out,
                   copied, close_notify>>

\* reader_with_entry(id) yields an error
OpenFail ==
    /\ pc = "open"
    /\ Send(Failure("BadEntry"))
    /\ UNCHANGED <<zip, index, spawned, server_name, wire, len, request, opened, out,
                   copied, close_notify>>

(***************************************************************************)
(* send_response: tokio's copy of the reader into the stream, then         *)
(* shutdown                                                                *)
(***************************************************************************)
\* one turn of copy: a poll_read of the reader and the write of what it read;
\* a read of no byte ends the copy with Ok
Copy(cap, n) ==
    /\ pc = "send"
    /\ LET r == poll_read(reader, cap, n)
       IN  /\ reader' = r[1]
           /\ out' = out \o r[2]
           /\ IF r[2] = <<>>
              THEN copied' = "ok" /\ pc' = "copied"
              ELSE UNCHANGED <<copied, pc>>
    /\ UNCHANGED <<zip, index, spawned, server_name, wire, len, request, opened, response,
                   close_notify>>

CopySome == \E cap \in 1..MaxCap, n \in 1..MaxChunk : Copy(cap, n)

\* the read of the archive entry yields an error: copy ends with Err
CopyReadErr ==
    /\ pc = "send"
    /\ reader.variant = "Chain"
    /\ reader.done_first \/ reader.pos = Len(reader.first)
    /\ copied' = "err"
    /\ pc' = "done"
    /\ UNCHANGED <<zip, index, spawned, server_name, wire, len, request, opened, response,
                   reader, out, close_notify>>

\* a write to the stream yields an error: copy ends with Err
CopyWriteErr ==
    /\ pc = "send"
    /\ copied' = "err"
    /\ pc' = "done"
    /\ UNCHANGED <<zip, index, spawned, server_name, wire, len, request, opened, response,
                   reader, out, close_notify>>

\* a send_response cut off by the deadline that half-closes all the same
SendTimeout_shutdown ==
    /\ pc = "send"
    /\ copied' = "cancelled"
    /\ close_notify' = TRUE
    /\ pc' = "done"
    /\ UNCHANGED <<zip, index, spawned, server_name, wire, len, request, opened, response,
                   reader, out>>

\* a send_response that is awaited under no deadline
SendTimeout_none ==
    /\ pc = "send"
    /\ FALSE
    /\ UNCHANGED vars

\* the deadline around send_response expires while copy is pending
SendTimeout ==
    /\ pc = "send"
    /\ copied' = "cancelled"
    /\ pc' = "done"
    /\ UNCHANGED <<zip, index, spawned, server_name, wire, len, request, opened, response,
                   reader, out, close_notify>>

\* a send_response that returns after copy without the half-close
Shutdown_skipped ==
    /\ pc = "copied"
    /\ copied = "ok"
    /\ pc' = "done"
    /\ UNCHANGED <<zip, index, spawned, server_name, wire, len, request, opened, response,
                   reader, out, copied, close_notify>>

\* a task that reads another request line after its response
Shutdown_again ==
    /\ pc = "copied"
    /\ copied = "ok"
    /\ pc' = "parse_req"
    /\ UNCHANGED <<zip, index, spawned, server_name, wire, len, request, opened,
                   response, reader, out, copied, close_notify>>

\* copy returned Ok: stream.shutdown() is called, and the task ends
Shutdown ==
    /\ pc = "copied"
    /\ copied = "ok"
    /\ close_notify' = TRUE
    /\ pc' = "done"
    /\ UNCHANGED <<zip, index, spawned, server_name, wire, len, request, opened, response,
                   reader, out, copied>>


(***************************************************************************)
(* The inputs: archives, hostnames and request lines.                      *)
(***************************************************************************)
Entry(filename, data) == [filename |-> filename, data |-> data]

A_TXT == <<97, 46, 116, 120, 116>>                             \* "a.txt"
D_DIR == <<100, 47>>                                           \* "d/"
D_INDEX_GMI == <<100, 47>> \o INDEX_GMI                        \* "d/index.gmi"

\* an archive with a root index, a file, and a directory with an index
Site ==
    << Entry(INDEX_GMI, <<104, 105, 10>>),      \* "hi\n"
       Entry(A_TXT, <<97, 98, 99, 100>>),       \* "abcd"
       Entry(D_DIR, <<>>),
       Entry(D_INDEX_GMI, <<100>>) >>           \* "d"

HOST_H == <<104>>                                              \* "h"
\* scheme "://" authority path
Uri(scheme, authority, path) == scheme \o <<58, 47, 47>> \o authority \o path
\* a request for a path of host h
Get(path) == Uri(GEMINI, HOST_H, path)
Line(s) == s \o CRLF

Wires ==
    { Line(Get(<<47>>)),                                       \* gemini://h/
      Line(Get(<<>>)),                                         \* gemini://h
      Line(Get(<<47>> \o A_TXT)),                              \* gemini://h/a.txt
      Line(Get(<<47, 100>>)),                                  \* gemini://h/d
      Line(Get(<<47, 110>>)),                                  \* gemini://h/n
      Line(Uri(GEMINI, <<72>>, <<47>> \o A_TXT)),              \* gemini://H/a.txt
      Line(Uri(GEMINI, <<103>>, <<47>> \o A_TXT)),             \* gemini://g/a.txt
      Line(Uri(<<104, 116, 116, 112>>, HOST_H, <<47>>)),       \* http://h/
      Line(Get(<<47>> \o A_TXT \o <<63, 113>>)),               \* gemini://h/a.txt?q
      Line(Get(<<47>>)) \o <<120, 120>>,                       \* gemini://h/ CRLF xx
      Get(<<47>> \o A_TXT),                                    \* no line ending
      CRLF,
      <<>> }

Init == InitWith({Site}, Wires, {<<>>, <<HOST_H>>}, "accept")

Next ==
    \/ AcceptOk
    \/ AcceptFail
    \/ ReadSome
    \/ ReadZero
    \/ ReadErr
    \/ HeaderTimeout
    \/ Dispatch
    \/ OpenOk
    \/ OpenFail
    \/ CopySome
    \/ CopyReadErr
    \/ CopyWriteErr
    \/ SendTimeout
    \/ Shutdown

Spec == Init /\ [][Next]_vars

\* The connections of Spec when every timer that is armed fires unless the
\* task moves on before, and the task takes the steps that wait for nothing:
\* the handshake's 10 s deadline, the 30 s deadline of parse_req, the dispatch
\* of the parsed request, the deadline around send_response, and the call of
\* shutdown after copy.  Nothing is assumed of the peer or of the archive.
SpecLive ==
    /\ Init
    /\ [][Next]_vars
    /\ WF_vars(AcceptFail)
    /\ WF_vars(HeaderTimeout)
    /\ WF_vars(Dispatch)
    /\ WF_vars(SendTimeout)
    /\ WF_vars(Shutdown)


(***************************************************************************)
(* Request lines at the limit of parse_req's buffer.                       *)
(***************************************************************************)
\* n bytes b
Rep(b, n) == [i \in 1..n |-> b]
\* head, n bytes b and tail
Padded(head, b, tail, n) == head \o Rep(b, n - Len(head) - Len(tail)) \o tail

\* request lines whose content is n bytes with no CRLF among them
Contents(n) ==
    { Padded(Get(<<47>>), 104, <<>>, n),         \* gemini://h/hhh...h
      Padded(Get(<<>>), 47, A_TXT, n),           \* gemini://h///.../a.txt
      Padded(<<10, 255, 35>>, 13, <<>>, n) }     \* LF 0xFF # CR CR ... CR

LongWires == { Line(c) : c \in Contents(1024) \cup Contents(1025) }

InitLong == InitWith({Site}, LongWires, {<<HOST_H>>}, "accept")

SpecLong == InitLong /\ [][Next]_vars


(***************************************************************************)
(* Archives with colliding paths, and the requests that resolve in them.   *)
(***************************************************************************)
\* the most entries of an archive
MaxEntries == 2

A_TXT_INDEX_GMI == A_TXT \o <<47>> \o INDEX_GMI                 \* "a.txt/index.gmi"

A_TXT_DIR == A_TXT \o <<47>>                                    \* "a.txt/"

EntryNames == {A_TXT, A_TXT_INDEX_GMI, A_TXT_DIR, INDEX_GMI}

\* the archive of the entries so named; the entry at place i holds the two
\* bytes 96 + i and '\n', so that no two entries hold the same bytes
Archive(names) == [i \in 1..Len(names) |-> Entry(names[i], <<96 + i, 10>>)]

Archives ==
    { Archive(names) : names \in UNION { [1..k -> EntryNames] : k \in 1..MaxEntries } }

ResolvePaths ==
    { <<>>,                                                    \* ""
      <<47>>,                                                  \* /
      <<47>> \o A_TXT,                                         \* /a.txt
      <<47>> \o A_TXT \o <<47>>,                               \* /a.txt/
      <<47, 47>> \o A_TXT,                                     \* //a.txt
      <<47, 37, 54, 49, 46, 116, 120, 116>>,                   \* /%61.txt
      <<47>> \o A_TXT_INDEX_GMI,                               \* /a.txt/index.gmi
      <<47>> \o INDEX_GMI,                                     \* /index.gmi
      <<47, 110>>,                                             \* /n
      <<47, 110, 47>> }                                        \* /n/

\* request lines for these paths; one has capitals in its scheme and a
\* port, one has no line ending
ResolveWires ==
    { Line(Get(path)) : path \in ResolvePaths }
    \cup { Line(Uri(<<71, 101, 109, 105, 110, 105>>,           \* Gemini://h:1965/a.txt
                    HOST_H \o <<58, 49, 57, 54, 53>>, <<47>> \o A_TXT)),
           Get(<<47>>) }

InitResolve == InitWith(Archives, ResolveWires, {<<>>}, "accept")

SpecResolve == InitResolve /\ [][Next]_vars


(***************************************************************************)
(* Connections to an archive whose files differ in their extensions.       *)
(***************************************************************************)
A_TXT_UPPER == <<65, 46, 84, 88, 84>>                          \* "A.TXT"
N_FILE == <<110>>                                              \* "n"
B_XYZ == <<98, 46, 120, 121, 122>>                             \* "b.xyz"
DOT_TXT == <<46, 116, 120, 116>>                               \* ".txt"
A_FF == <<97, 46, 255>>                                        \* "a." 0xFF

MimeSite == Archive(<<INDEX_GMI, A_TXT_UPPER, N_FILE, B_XYZ, DOT_TXT, A_FF, A_TXT>>)

\* request lines for the root and for each file; one has no line ending
MimeWires ==
    { Line(Get(<<47>> \o name)) :
        name \in {<<>>, INDEX_GMI, A_TXT_UPPER, N_FILE, B_XYZ, DOT_TXT, A_TXT,
                  <<97, 46, 37, 70, 70>>} }                    \* a.%FF
    \cup { Get(<<47>>) }

InitMime == InitWith({MimeSite}, MimeWires, {<<>>}, "accept")

SpecMime == InitMime /\ [][Next]_vars


(***************************************************************************)
(* Two connections served at a time: handle_tcp spawns a task for each     *)
(* accepted socket, and the runtime runs the tasks in any interleaving of  *)
(* their steps.  The variables hold the connection of the task that runs   *)
(* and spawned holds that of the other.                                    *)
(***************************************************************************)
\* the connection of the task that runs
Conn ==
    [server_name |-> server_name, wire |-> wire, pc |-> pc, len |-> len,
     request |-> request, opened |-> opened, response |-> response,
     reader |-> reader, out |-> out, copied |-> copied,
     close_notify |-> close_notify]

\* a task as handle_tcp spawns it for peer bytes w
Spawn(w) ==
    [server_name |-> <<>>, wire |-> w, pc |-> "accept", len |-> 0,
     request |-> Err(""), opened |-> <<>>, response |-> NoResponse,
     reader |-> NoReader, out |-> <<>>, copied |-> "", close_notify |-> FALSE]

\* the runtime leaves the task that runs at its await and polls the other
Resume ==
    /\ spawned # <<>>
    /\ spawned' = <<Conn>>
    /\ server_name' = spawned[1].server_name
    /\ wire' = spawned[1].wire
    /\ pc' = spawned[1].pc
    /\ len' = spawned[1].len
    /\ request' = spawned[1].request
    /\ opened' = spawned[1].opened
    /\ response' = spawned[1].response
    /\ reader' = spawned[1].reader
    /\ out' = spawned[1].out
    /\ copied' = spawned[1].copied
    /\ close_notify' = spawned[1].close_notify
    /\ UNCHANGED <<zip, index>>

\* request lines of the two peers: a file, a path the index lacks, a line
\* for a foreign scheme, and a line that never ends
TwoWires ==
    { Line(Get(<<47>> \o A_TXT)),                              \* gemini://h/a.txt
      Line(Get(<<47, 110>>)),                                  \* gemini://h/n
      Line(Uri(<<104, 116, 116, 112>>, HOST_H, <<>>)),         \* http://h
      Get(<<47>>) }                                            \* no line ending

InitTwo ==
    /\ zip = Archive(<<A_TXT>>)
    /\ index = from_zip(zip)
    /\ server_name = <<>>
    /\ wire \in TwoWires
    /\ pc = "accept"
    /\ len = 0
    /\ request = Err("")
    /\ opened = <<>>
    /\ response = NoResponse
    /\ reader = NoReader
    /\ out = <<>>
    /\ copied = ""
    /\ close_notify = FALSE
    /\ spawned \in { <<Spawn(w)>> : w \in {Line(Get(<<47>> \o A_TXT)), Get(<<47>>)} }

NextTwo == Next \/ Resume

SpecTwo == InitTwo /\ [][NextTwo]_vars


(***************************************************************************)
(* Connections that ask for directories in many spellings.                 *)
(***************************************************************************)
RedirectArchives ==
    { Archive(<<A_TXT_INDEX_GMI>>),
      Archive(<<INDEX_GMI, A_TXT_INDEX_GMI>>),
      Archive(<<A_TXT_INDEX_GMI, A_TXT>>) }

RedirectPaths ==
    { <<>>,                                                    \* ""
      <<47, 46>>,                                              \* /.
      <<47>> \o A_TXT,                                         \* /a.txt
      <<47>> \o A_TXT \o <<47>>,                               \* /a.txt/
      <<47, 47>> \o A_TXT,                                     \* //a.txt
      <<47, 46, 47>> \o A_TXT,                                 \* /./a.txt
      <<47>> \o A_TXT \o <<47, 46>>,                           \* /a.txt/.
      <<47, 37, 54, 49, 46, 116, 120, 116>>,                   \* /%61.txt
      <<47>> \o A_TXT \o <<37, 50, 70>>,                       \* /a.txt%2F
      <<47>> \o A_TXT \o <<37, 50, 70, 46>>,                   \* /a.txt%2F.
      <<37, 50, 70>> \o A_TXT }                                \* %2Fa.txt

\* request lines for these paths; one has no line ending
RedirectWires ==
    { Line(Get(path)) : path \in RedirectPaths } \cup { Get(<<47>>) }

InitRedirect == InitWith(RedirectArchives, RedirectWires, {<<>>, <<HOST_H>>}, "accept")

SpecRedirect == InitRedirect /\ [][Next]_vars


(***************************************************************************)
(* Request::parse by itself: the input and the expected hostname are drawn *)
(* from the texts below (wire holds inp, server_name holds expect_host),   *)
(* and the one step applies the function.                                  *)
(***************************************************************************)
Parse ==
    /\ pc = "parse"
    /\ request' = RequestParse(wire, server_name)
    /\ pc' = "parsed"
    /\ UNCHANGED <<zip, index, spawned, server_name, wire, len, opened, response, reader,
                   out, copied, close_notify>>

HTTP == <<104, 116, 116, 112>>                                 \* "http"
GEMINI_UPPER == <<71, 69, 77, 73, 78, 73>>                     \* "GEMINI"

\* what follows the scheme's colon up to the path: no authority, or "//" and
\* an authority with or without userinfo and port
Authorities ==
    { <<>>,                                                    \* (none)
      <<47, 47>> \o HOST_H,                                    \* //h
      <<47, 47, 72>>,                                          \* //H
      <<47, 47, 103>>,                                         \* //g
      <<47, 47>> \o HOST_H \o <<58, 49, 57, 54, 53>>,          \* //h:1965
      <<47, 47, 117, 64>> \o HOST_H,                           \* //u@h
      <<47, 47, 117, 64, 103>> }                               \* //u@g

ParsePaths == { <<47, 97, 37, 50, 48, 98>>, <<>> }             \* /a%20b, ""
Queries == { <<>>, <<63, 113>> }                               \* (none), ?q
Fragments == { <<>>, <<35, 102>> }                             \* (none), #f
\* what an input ends with: nothing; a byte that is no UTF-8; a space, which
\* no URI holds; U+00E9 in UTF-8, which no URI holds
Tails == { <<>>, <<255>>, <<32>>, <<195, 169>> }

ParseInputs ==
    { scheme \o <<58>> \o authority \o path \o query \o fragment \o tail :
        scheme \in {GEMINI, GEMINI_UPPER, HTTP}, authority \in Authorities,
        path \in ParsePaths, query \in Queries, fragment \in Fragments,
        tail \in Tails }

ExpectHosts == { <<>>, <<HOST_H>>, <<<<72>>>> }                 \* None, Some("h"), Some("H")

InitParse == InitWith({<<>>}, ParseInputs, ExpectHosts, "parse")

SpecParse == InitParse /\ [][Parse]_vars


(***************************************************************************)
(* Request::parse on inputs that hold a CR or an LF: a URI with the byte   *)
(* put in at every place, with and without a byte that is no UTF-8.        *)
(***************************************************************************)
\* s with the byte b put in after its first i bytes
Insert(s, i, b) == Slice(s, 1, i) \o <<b>> \o Slice(s, i + 1, Len(s))

NewlineBases ==
    { Get(<<47, 97>>),                                         \* gemini://h/a
      Get(<<47, 97, 63, 113, 35, 102>>) }                      \* gemini://h/a?q#f

NewlineInputs ==
    UNION { { Insert(base, i, b) \o tail :
                i \in 0..Len(base), b \in {13, 10}, tail \in {<<>>, <<255>>} } :
            base \in NewlineBases }

InitNewline == InitWith({<<>>}, NewlineInputs, {<<>>, <<HOST_H>>}, "parse")

SpecNewline == InitNewline /\ [][Parse]_vars


(***************************************************************************)
(* Properties of the connection's end: send_response.                      *)
(***************************************************************************)
\* every byte of a response: the status line and, for Success, the body
Whole(r) == into_read(r).first \o into_read(r).second

\* C1: stream.shutdown() (close_notify) is called only after the whole
\* response, status line and every body byte, was written; when the copy ends
\* with a write error or a read error of the body, or is cancelled by the
\* deadline, the task ends and close_notify is never sent.
C1_CloseNotifyOnlyAfterWholeResponse ==
    /\ close_notify => copied = "ok" /\ out = Whole(response)
    /\ copied \in {"err", "cancelled"} => ~close_notify /\ pc = "done"

\* a Success response cut off by the deadline after a part of its body: the
\* task has ended without close_notify
C1_Witness ==
    /\ copied = "cancelled"
    /\ pc = "done"
    /\ response.kind = "Success"
    /\ Len(out) > Len(into_read(response).first)
    /\ Len(out) < Len(Whole(response))
    /\ ~close_notify

\* C2: when the copy of the response into the stream returned Ok, the task
\* does not end before it has called stream.shutdown() (close_notify).
C2_HalfCloseAfterFullResponse ==
    /\ pc = "done" /\ copied = "ok" => close_notify
    /\ pc = "copied" => copied = "ok" /\ ENABLED Shutdown

\* a Success response written in full, then the half-close
C2_Witness ==
    /\ pc = "done"
    /\ copied = "ok"
    /\ response.kind = "Success"
    /\ response.body # <<>>
    /\ out = Whole(response)
    /\ close_notify

(***************************************************************************)
(* Properties of parse_req at the limit of its buffer (SpecLong).          *)
(***************************************************************************)
\* "59 header too long\r\n"
HEADER_TOO_LONG_LINE ==
    <<53, 57, 32, 104, 101, 97, 100, 101, 114, 32, 116, 111, 111, 32, 108, 111,
      110, 103, 13, 10>>

\* the wire is a request line of n content bytes and CRLF
LineOf(n) == Len(wire) = n + 2

\* what holds in every state of a connection that is sent such a line
C3_State ==
    /\ pc = "parse_req" /\ LineOf(1024) => len < 1026
    /\ pc = "parse_req" /\ len = 1026 =>
          /\ ENABLED ReadZero
          /\ ~ENABLED ReadSome
          /\ ~ENABLED HeaderTimeout
    /\ LineOf(1025) =>
          /\ request \in {Err(""), Err("HeaderTooLong")}
          /\ response \in {NoResponse, Failure("HeaderTooLong"), Failure("Timeout")}
          /\ copied = "ok" /\ response = Failure("HeaderTooLong")
                => out = HEADER_TOO_LONG_LINE

\* the read that brings the last byte of a line of 1024 content bytes hands
\* the content to Request::parse; the read that fills the buffer with a line
\* of 1025 content bytes is followed by the rejection
C3_Step ==
    /\ LineOf(1024) /\ (\E count \in 1..MaxChunk \cup {1026 - len} :
                          len + count = 1026 /\ Read(count))
          => /\ request' = RequestParse(Slice(wire, 1, 1024), expect_host)
             /\ pc' = "dispatch"
    /\ pc = "parse_req" /\ len = 1026
          => request' = Err("HeaderTooLong") /\ pc' = "dispatch"

\* C3: a request line of exactly 1024 content bytes and CRLF is handed to
\* Request::parse; a request line of 1025 content bytes and CRLF is answered
\* with exactly "59 header too long\r\n", whatever its content bytes and
\* however they are split across reads; the rejection comes as soon as the
\* 1026 bytes of the buffer are filled, the deadline cannot come first.
C3_HeaderLengthBoundary == []C3_State /\ [][C3_Step]_vars

\* a line of 1025 content bytes was answered "59 header too long\r\n" in full
C3_Witness ==
    /\ LineOf(1025)
    /\ pc = "done"
    /\ out = HEADER_TOO_LONG_LINE
    /\ close_notify

(***************************************************************************)
(* Properties of get_file over the archives with colliding paths           *)
(* (SpecResolve).  They are stated on the archive, not on the index.       *)
(***************************************************************************)
\* the request line without its CRLF
Content == Slice(wire, 1, Len(wire) - 2)

\* percent-decoding, byte by byte
RECURSIVE PctDecode(_)
PctDecode(p) ==
    IF p = <<>> THEN <<>>
    ELSE IF p[1] = 37 /\ Len(p) >= 3
    THEN <<16 * HexVal(p[2]) + HexVal(p[3])>> \o PctDecode(SubSeq(p, 4, Len(p)))
    ELSE <<p[1]>> \o PctDecode(Tail(p))

\* get_file has answered a request that parsed
Resolved == pc \in {"send", "copied", "done"} /\ request.ok
\* the decoded path of the request, and the index key it names
ReqPath == PctDecode(request.val.path)
ReqKey == Components(RootJoin(ReqPath))
Slash == ReqPath # <<>> /\ ReqPath[Len(ReqPath)] = 47
NoSlash == ReqPath # <<>> /\ ReqPath[Len(ReqPath)] # 47

\* the index key of the archive's entry at place i
KeyOf(i) == Components(RootJoin(zip[i].filename))
\* the places of the files whose path is key
Files(key) == { i \in 1..Len(zip) : ~dir(zip[i]) /\ KeyOf(i) = key }
\* the places of the files named index.gmi in the directory key
Aliases(key) ==
    { i \in 1..Len(zip) : /\ ~dir(zip[i])
                          /\ KeyOf(i) # <<>>
                          /\ KeyOf(i)[Len(KeyOf(i))] = INDEX_GMI
                          /\ SubSeq(KeyOf(i), 1, Len(KeyOf(i)) - 1) = key }
Last(S) == CHOOSE i \in S : \A j \in S : j <= i
\* key is a non-directory path of the index: a file has this path, and no
\* index.gmi of a directory of this path comes after it in the archive
IsFileKey(key) ==
    Files(key) # {} /\ \A j \in Aliases(key) : j < Last(Files(key))
\* key is a directory that holds an index.gmi, and no file of this path comes
\* after that index.gmi in the archive
IsDirKey(key) ==
    Aliases(key) # {} /\ \A j \in Files(key) : j < Last(Aliases(key))

TXT == <<46, 116, 120, 116>>
\* the mimetype of a path of these archives: text/plain for .txt, else
\* text/gemini
MimeText(key) ==
    IF key # <<>> /\ ends_with(key[Len(key)], TXT)
    THEN <<116, 101, 120, 116, 47, 112, 108, 97, 105, 110>>
    ELSE <<116, 101, 120, 116, 47, 103, 101, 109, 105, 110, 105>>
\* "20 <mimetype>\r\n" and the body
SuccessBytes(mime, data) == <<50, 48, 32>> \o mime \o <<13, 10>> \o data
\* "31 <uri>\r\n"
RedirectBytes(uri) == <<51, 49, 32>> \o uri \o <<13, 10>>
NOT_FOUND_LINE == <<53, 49, 32, 110, 111, 116, 32, 102, 111, 117, 110, 100, 13, 10>>  \* "51 not found\r\n"

\* the response is the entry at place i as mime, or the failure to open it;
\* that entry was the one opened; a completed copy wrote exactly its bytes
Serves(i, mime) ==
    /\ opened = <<i - 1>>
    /\ \/ response = Failure("BadEntry")
       \/ /\ response.kind = "Success"
          /\ Whole(response) = SuccessBytes(mime, zip[i].data)
    /\ copied = "ok" /\ response.kind = "Success"
          => out = SuccessBytes(mime, zip[i].data)

\* the response is "51 not found\r\n", and no entry was opened
NotFound ==
    /\ opened = <<>>
    /\ response = Failure("NotFound")
    /\ copied = "ok" => out = NOT_FOUND_LINE

\* the response is the redirect to the request's URI with '/' added, without
\* a body, and no entry was opened
Redirects ==
    /\ opened = <<>>
    /\ response.kind = "PermanentRedirect"
    /\ into_read(response).variant = "Single"
    /\ Whole(response) = RedirectBytes(Content \o <<47>>)
    /\ copied = "ok" => out = RedirectBytes(Content \o <<47>>)

\* C4 as it is stated: whenever a file of the archive has the path P, a
\* request for P (no trailing slash) is answered with that file, never with a
\* redirect or not-found, whatever else the archive holds.
C4_AsStated ==
    Resolved /\ NoSlash /\ Files(ReqKey) # {}
        => Serves(Last(Files(ReqKey)), MimeText(ReqKey))

\* C4: for every non-directory path P of the index, that is a file P that no
\* P/index.gmi follows in the archive, a request for P (no trailing slash) is
\* answered "20 <mimetype of P>\r\n" and exactly the bytes of the last entry
\* of path P, unless the entry cannot be opened; when a P/index.gmi follows
\* the file P in the archive, the same request is answered with a redirect.
C4_FileServed ==
    /\ Resolved /\ NoSlash /\ IsFileKey(ReqKey)
          => Serves(Last(Files(ReqKey)), MimeText(ReqKey))
    /\ Resolved /\ NoSlash /\ Files(ReqKey) # {} /\ ~IsFileKey(ReqKey)
          => Redirects

\* a.txt is served in full from an archive that holds a.txt/index.gmi, then a.txt
C4_Witness ==
    /\ zip = Archive(<<A_TXT_INDEX_GMI, A_TXT>>)
    /\ wire = Line(Get(<<47>> \o A_TXT))
    /\ copied = "ok"
    /\ out = <<50, 48, 32, 116, 101, 120, 116, 47, 112, 108, 97, 105, 110, 13, 10, 98, 10>>  \* "20 text/plain\r\nb\n"
    /\ close_notify

\* C5: for every non-directory path P of the index, a request for P with a
\* trailing '/' is answered with exactly "51 not found\r\n"; so is a request
\* for a path that has no index entry; no archive entry is opened in either
\* case.
C5_NotFound ==
    /\ Resolved /\ Slash /\ IsFileKey(ReqKey) => NotFound
    /\ Resolved /\ Files(ReqKey) = {} /\ Aliases(ReqKey) = {} => NotFound

\* /a.txt/ was answered "51 not found\r\n" by an archive that holds a.txt
C5_Witness ==
    /\ zip = Archive(<<A_TXT>>)
    /\ wire = Line(Get(<<47>> \o A_TXT \o <<47>>))
    /\ pc = "done"
    /\ opened = <<>>
    /\ out = NOT_FOUND_LINE
    /\ close_notify

OtherRoot ==
    RequestParse(Uri(request.val.scheme, request.val.authority,
                     IF request.val.path = <<>> THEN <<47>> ELSE <<>>), <<>>).val

\* C7: a request with the empty path and one with the path "/" are resolved
\* alike: both look up the root key as paths with a trailing slash, both are
\* answered "20 text/gemini\r\n" and the bytes of the root's index.gmi when
\* there is one (not found when there is none), and neither is redirected.
C7_RootForms ==
    Resolved /\ ReqPath \in {<<>>, <<47>>} =>
        /\ ReqKey = <<>>
        /\ response.kind # "PermanentRedirect"
        /\ get_file_lookup(index, request.val) = get_file_lookup(index, OtherRoot)
        /\ IF IsDirKey(<<>>)
           THEN Serves(Last(Aliases(<<>>)), <<116, 101, 120, 116, 47, 103, 101, 109, 105, 110, 105>>)
           ELSE NotFound

\* the request with the empty path was answered with the root's index.gmi
C7_Witness ==
    /\ zip = Archive(<<INDEX_GMI>>)
    /\ wire = Line(Get(<<>>))
    /\ pc = "done"
    /\ out = <<50, 48, 32, 116, 101, 120, 116, 47, 103, 101, 109, 105, 110, 105, 13, 10, 97, 10>>  \* "20 text/gemini\r\na\n"
    /\ close_notify

(***************************************************************************)
(* Properties of Request::parse (SpecParse).                               *)
(***************************************************************************)
\* two texts are equal but for the case of their ASCII letters
SameIgnoringCase(a, b) ==
    /\ Len(a) = Len(b)
    /\ \A i \in 1..Len(a) :
          \/ a[i] = b[i]
          \/ a[i] \in 65..90 /\ b[i] = a[i] + 32
          \/ b[i] \in 65..90 /\ a[i] = b[i] + 32

\* the host of an authority: what follows the userinfo's '@' and comes before
\* the port's ':'
HostOf(authority) ==
    LET at == FirstOf(authority, {64}, 1)
        start == IF at <= Len(authority) THEN at + 1 ELSE 1
    IN  Slice(authority, start, FirstOf(authority, {58}, start) - 1)

\* the rules of Request::parse that the input in wire violates, given the
\* expected hostname in server_name
NotText == ~from_utf8_ok(wire)
NotUri == ~UriParse(wire).ok
NotGemini == ~SameIgnoringCase(UriParse(wire).scheme, GEMINI)
NoAuthority == ~UriParse(wire).has_authority
HostDiffers ==
    server_name # <<>>
    /\ ~SameIgnoringCase(server_name[1], HostOf(UriParse(wire).authority))
HasUserinfo == 64 \in { UriParse(wire).authority[i] : i \in DOMAIN UriParse(wire).authority }
HasQuery == UriParse(wire).has_query
HasFragment == UriParse(wire).has_fragment

\* the error of the earliest violated rule in the order of the checks, "" when
\* no rule is violated; what is no text is named by nonText
Earliest(nonText) ==
    CASE NotText -> nonText
      [] NotUri -> "UnparseableUri"
      [] NotGemini -> "NonGeminiScheme"
      [] NoAuthority -> "NoAuthority"
      [] HostDiffers -> "SniMismatch"
      [] HasUserinfo -> "Userinfo"
      [] HasQuery -> "HasQuery"
      [] HasFragment -> "HasFragment"
      [] OTHER -> ""

\* C8 as it is stated: the first rule, text and URI well-formedness, fails
\* with UnparseableUri.
C8_AsStated ==
    pc = "parsed" =>
        /\ request.err = Earliest("UnparseableUri")
        /\ request.ok <=> Earliest("UnparseableUri") = ""

\* C8: Request::parse applies its checks in the fixed order: the bytes are
\* UTF-8 (NonUtf8), the text is a URI (UnparseableUri), the scheme is gemini
\* (NonGeminiScheme), there is an authority (NoAuthority), the host is the
\* expected one when one is supplied (SniMismatch), no userinfo (Userinfo),
\* no query (HasQuery), no fragment (HasFragment); the error returned is that
\* of the earliest violated rule, and the parse succeeds only when none is.
C8_CheckOrder ==
    pc = "parsed" =>
        /\ request.err = Earliest("NonUtf8")
        /\ request.ok <=> Earliest("NonUtf8") = ""

\* an input with another host than expected, userinfo, a query and a
\* fragment was refused for its host
C8_Witness ==
    /\ pc = "parsed"
    /\ ~NotText /\ ~NotUri /\ ~NotGemini /\ ~NoAuthority
    /\ HostDiffers /\ HasUserinfo /\ HasQuery /\ HasFragment
    /\ request = Err("SniMismatch")

\* C10: when an expected hostname H is supplied and the earlier checks pass,
\* SniMismatch is returned exactly when the authority's host differs from H
\* but for the case of ASCII letters, the port taking no part; on a match the
\* request is accepted (when it has no userinfo, query or fragment), and
\* pathname() is the percent-decoded path of the URI.
C10_HostComparison ==
    pc = "parsed" /\ server_name # <<>>
    /\ ~NotText /\ ~NotUri /\ ~NotGemini /\ ~NoAuthority
    => /\ request.err = "SniMismatch" <=> HostDiffers
       /\ ~HostDiffers =>
            /\ request.ok <=> ~HasUserinfo /\ ~HasQuery /\ ~HasFragment
            /\ request.ok => pathname(request.val) = PctDecode(UriParse(wire).path)

\* gemini://h:1965/a%20b was accepted for the expected hostname H, and its
\* pathname is "/a b"
C10_Witness ==
    /\ pc = "parsed"
    /\ server_name = << <<72>> >>
    /\ wire = <<103, 101, 109, 105, 110, 105, 58, 47, 47, 104, 58, 49, 57, 54, 53, 47, 97, 37, 50, 48, 98>>
    /\ request.ok
    /\ pathname(request.val) = <<47, 97, 32, 98>>

(***************************************************************************)
(* The expected hostname on a connection (Spec).                           *)
(***************************************************************************)
\* the peer claimed a hostname in the handshake, and sends a whole request
\* line for another host
OtherHostRequested ==
    /\ server_name # <<>>
    /\ ends_with(wire, CRLF)
    /\ UriParse(Content).ok
    /\ SameIgnoringCase(UriParse(Content).scheme, GEMINI)
    /\ UriParse(Content).has_authority
    /\ ~SameIgnoringCase(server_name[1], HostOf(UriParse(Content).authority))

PollRead(cap, n) ==
    /\ pc = "read"
    /\ LET r == poll_read(reader, cap, n)
       IN  /\ reader' = r[1]
           /\ out' = out \o r[2]
    /\ UNCHANGED <<zip, index, spawned, server_name, wire, pc, len, request, opened,
                   response, copied, close_notify>>

PollReadAny == \E cap \in 0..MaxCap, n \in 1..MaxChunk : PollRead(cap, n)

\* a response of each kind; Success with and without body bytes
Responses ==
    { with_type(TEXT_GEMINI, <<>>),
      with_type(MimeTable(<<116, 120, 116>>), <<97, 98, 99, 100, 13, 10, 101>>),
      Failure("NotFound"),
      Failure("Timeout"),
      permanent_redirect(UriParse(Get(<<47, 100, 47>>))) }

InitReader ==
    /\ zip = <<>>
    /\ index = from_zip(zip)
    /\ server_name = <<>>
    /\ wire = <<>>
    /\ pc = "read"
    /\ len = 0
    /\ request = Err("")
    /\ opened = <<>>
    /\ response \in Responses
    /\ reader = into_read(response)
    /\ out = <<>>
    /\ copied = ""
    /\ close_notify = FALSE
    /\ spawned = <<>>

SpecReader == InitReader /\ [][PollReadAny]_vars

\* the status line of the response: what comes before the body
Header == into_read(response).first

\* the places of s where a CRLF starts
CrlfAt(s) == { i \in 1..(Len(s) - 1) : s[i] = 13 /\ s[i + 1] = 10 }

\* the header is one status line, and only Success has a body, its own
OneStatusLine ==
    /\ CrlfAt(Header) = {Len(Header) - 1}
    /\ Header[1] \in 48..57 /\ Header[2] \in 48..57 /\ Header[3] = 32
    /\ Whole(response) = Header \o (IF response.kind = "Success"
                                   THEN response.body ELSE <<>>)

\* the bytes produced so far are the first bytes of the whole response
Produced == out = Slice(Whole(response), 1, Len(out))

\* ... and the reader stands where they end, the header behind it once it
\* has turned to the body
InOrder ==
    /\ Produced
    /\ reader.pos + reader.bpos = Len(out)
    /\ reader.done_first \/ reader.bpos > 0 => reader.pos = Len(Header)

\* C11 as it is stated: after every sequence of reads, of whatever buffer
\* capacity, the bytes produced are the status line and then the body, in
\* order and with nothing left out.
C11_AsStated == OneStatusLine /\ Produced

\* C11: the value into_read returns holds exactly one CRLF-terminated status
\* line and, for Success only, the body; every read into a buffer with room
\* (the only reads copy makes) produces the next bytes of the status line,
\* and body bytes, unmodified and in order, only once the status line was
\* produced in full; Failure and PermanentRedirect never produce a body byte.
C11_StatusLineThenBody ==
    /\ []OneStatusLine
    /\ [](out = <<>> /\ reader = into_read(response) => InOrder)
    /\ [][InOrder /\ (\E cap \in 1..MaxCap, n \in 1..MaxChunk : PollRead(cap, n))
            => InOrder']_vars

\* a Success response was read to its end: the status line, then the body
C11_Witness ==
    /\ pc = "read"
    /\ response.kind = "Success"
    /\ response.body # <<>>
    /\ InOrder
    /\ out = Header \o response.body


(***************************************************************************)
(* Properties of the header read's failures (Spec).                        *)
(***************************************************************************)
TIMED_OUT_LINE == <<52, 48, 32, 116, 105, 109, 101, 100, 32, 111, 117, 116, 13, 10>>  \* "40 timed out\r\n"

\* what holds of a connection whose response is the Timeout failure
C12_State ==
    response = Failure("Timeout") =>
        /\ request = Err("")
        /\ opened = <<>>
        /\ pc \in {"send", "copied", "done"}
        /\ out = Slice(TIMED_OUT_LINE, 1, Len(out))
        /\ copied = "ok" => out = TIMED_OUT_LINE
        /\ pc = "send" => ENABLED SendTimeout

\* C12: when the deadline of the header read expires before a request line
\* was read, handle_connection makes the Timeout failure its response and
\* starts to send "40 timed out\r\n" under a deadline of its own; Request::parse
\* and get_file never run for the connection (no request, no entry opened),
\* no byte but that line is written, and the connection does not read again.
C12_HeaderTimeout ==
    /\ []C12_State
    /\ [][HeaderTimeout => /\ response' = Failure("Timeout")
                           /\ reader' = into_read(response')
                           /\ pc' = "send"]_vars
    /\ [][response = Failure("Timeout") => response' = response /\ pc' # "parse_req"]_vars

\* the deadline expired after a part of the line was read, and
\* "40 timed out\r\n" was sent in full
C12_Witness ==
    /\ response = Failure("Timeout")
    /\ wire = Line(Get(<<47>> \o A_TXT))
    /\ pc = "done"
    /\ out = TIMED_OUT_LINE
    /\ close_notify

\* the peer sends no CRLF at all before it closes its side
NoTerminator == CrlfAt(wire) = {}

\* C13 as it is stated: when the peer disconnects or a read fails before a
\* CRLF was received, no response byte is written.
C13_AsStated ==
    NoTerminator /\ response # Failure("Timeout") => out = <<>>

\* what holds of a connection that receives no CRLF
C13_State ==
    NoTerminator =>
        /\ request \in {Err(""), Err("HeaderTooLong")}
        /\ response \in {NoResponse, Failure("HeaderTooLong"), Failure("Timeout")}
        /\ opened = <<>>
        /\ copied = "ok" /\ response = Failure("HeaderTooLong")
              => out = HEADER_TOO_LONG_LINE

\* C13: when the peer closes its side or a read fails during the header read,
\* before a CRLF was received, parse_req returns HeaderTooLong at once and does
\* not read again; the handler then sends "59 header too long\r\n" as for any
\* other failure, and half-closes if the write succeeds.  No byte is written
\* only when the write itself fails or the handshake had failed.
C13_ReadFailure ==
    /\ []C13_State
    /\ [][ReadZero \/ ReadErr => request' = Err("HeaderTooLong") /\ pc' = "dispatch"]_vars
    /\ [][pc \notin {"accept", "parse_req"} => pc' # "parse_req"]_vars

\* the peer sent a part of a line and closed its side; it was answered
\* "59 header too long\r\n"
C13_Witness ==
    /\ wire = Get(<<47>> \o A_TXT)
    /\ pc = "done"
    /\ out = HEADER_TOO_LONG_LINE
    /\ close_notify


\* parse_req returned an Error
Failed == ~request.ok /\ request.err # ""

\* what holds of a connection whose parse_req returned an Error
C14_State ==
    Failed =>
        /\ opened = <<>>
        /\ pc \in {"dispatch", "send", "copied", "done"}
        /\ pc = "dispatch" => response = NoResponse
        /\ pc # "dispatch" =>
              /\ response = Failure(request.err)
              /\ out = Slice(Whole(response), 1, Len(out))
              /\ copied = "ok" => out = StatusLine(request.err)
              /\ close_notify => copied = "ok" /\ pc = "done"

\* C14: an Error returned by parse_req (a failed header read or a failed
\* parse) becomes the Failure response of that error in the dispatch step
\* itself: the step opens no entry and its response does not depend on the
\* index; the response is then written and the stream shut down as for any
\* other response.
C14_ErrorToFailure ==
    /\ []C14_State
    /\ [][Failed /\ Dispatch => /\ response' = Failure(request.err)
                                /\ reader' = into_read(response')
                                /\ pc' = "send"
                                /\ opened' = <<>>]_vars
    /\ [][Failed => request' = request /\ pc' # "open"]_vars

\* a request line that failed to parse was answered its status line, and
\* the stream was shut down
C14_Witness ==
    /\ Failed
    /\ request.err \notin {"HeaderTooLong"}
    /\ pc = "done"
    /\ out = StatusLine(request.err)
    /\ close_notify


(***************************************************************************)
(* Properties of the status lines of errors (SpecParse).                   *)
(***************************************************************************)
\* the variants of Error returned by Request::parse
ParseKinds ==
    {"NonUtf8", "UnparseableUri", "NonGeminiScheme", "NoAuthority",
     "SniMismatch", "Userinfo", "HasQuery", "HasFragment"}

\* the variants of Error
Kinds ==
    ParseKinds \cup {"HeaderTooLong", "NotFound", "BadEntry", "Timeout", "UriBuild"}

\* the code of the status table for an error kind
Code(kind) ==
    CASE kind = "NotFound" -> <<53, 49>>
      [] kind = "NonGeminiScheme" -> <<53, 51>>
      [] kind \in {"BadEntry", "Timeout", "UriBuild"} -> <<52, 48>>
      [] OTHER -> <<53, 57>>

\* s is one line: a code of two digits, a space, a text, and CRLF at its end
\* only
OneLine(s) ==
    /\ Len(s) > 5
    /\ CrlfAt(s) = {Len(s) - 1}
    /\ s[1] \in 48..57 /\ s[2] \in 48..57 /\ s[3] = 32

C15_Table ==
    \A kind \in Kinds :
        /\ OneLine(StatusLine(kind))
        /\ Slice(StatusLine(kind), 1, 2) = Code(kind)

IndexedDirs == { key \in { pop(KeyOf(i)) : i \in 1..Len(zip) } : Aliases(key) # {} }

\* the index holds the path of key's index.gmi and key itself, both with one
\* entry id, the first as a file and the second as a directory index
TwoKeys(key) ==
    /\ {key, key \o <<INDEX_GMI>>} \subseteq DOMAIN index
    /\ ~index[key \o <<INDEX_GMI>>].is_index
    /\ index[key].is_index
    /\ index[key].id = index[key \o <<INDEX_GMI>>].id

NonDirs == { i \in 1..Len(zip) : ~dir(zip[i]) }

\* the places of the entries that insert key: as their own path, or as the
\* directory of their index.gmi
Inserters(key) == Files(key) \cup Aliases(key)

\* C17: the keys of the index are the paths of the non-directory entries and
\* the directories of those named index.gmi; directory entries give no key;
\* a key that several entries insert is mapped to the value of the one that
\* comes last in the archive: (its id, false) if the key is its own path,
\* (its id, true) if the key is the directory of its index.gmi.
C17_LaterEntryWins ==
    /\ DOMAIN index = { KeyOf(i) : i \in NonDirs } \cup IndexedDirs
    /\ \A key \in DOMAIN index :
          LET j == Last(Inserters(key))
          IN  index[key] = [id |-> j - 1, is_index |-> j \in Aliases(key)]

\* a file a.txt that follows a.txt/index.gmi takes the key of a.txt, and a
\* directory entry a.txt/ that follows a file a.txt leaves the key alone
C17_Witness ==
    \/ /\ zip = Archive(<<A_TXT_INDEX_GMI, A_TXT>>)
       /\ index[KeyOf(2)] = [id |-> 1, is_index |-> FALSE]
       /\ pc = "dispatch"
    \/ /\ zip = Archive(<<A_TXT, A_TXT_DIR>>)
       /\ index[KeyOf(1)] = [id |-> 0, is_index |-> FALSE]
       /\ pc = "dispatch"


(***************************************************************************)
(* Properties of the MIME type of a Success response (SpecMime).           *)
(***************************************************************************)
TEXT_PLAIN == << <<116, 101, 120, 116>>, <<112, 108, 97, 105, 110>> >>
OCTET_STREAM ==
    << <<97, 112, 112, 108, 105, 99, 97, 116, 105, 111, 110>>,
       <<111, 99, 116, 101, 116, 45, 115, 116, 114, 101, 97, 109>> >>

\* a Success response was made for the request
Served == Resolved /\ response.kind = "Success"

\* the file name of the requested path
ReqName == IF ReqKey = <<>> THEN <<>> ELSE ReqKey[Len(ReqKey)]

\* the status line of the Success response names its mimetype
NamesMime ==
    into_read(response).first
        = <<50, 48, 32>> \o response.mimetype[1] \o <<47>> \o response.mimetype[2] \o CRLF

\* C18 as it is stated: text/gemini for a directory index, else the table's
\* type for the extension in lowercase, and application/octet-stream when the
\* extension is not in the table or the path has no extension.
C18_AsStated ==
    Served =>
        response.mimetype =
            IF index[ReqKey].is_index THEN TEXT_GEMINI
            ELSE IF extension(ReqKey) = <<>> THEN OCTET_STREAM
            ELSE MimeTable(str_to_ascii_lowercase(extension(ReqKey)[1]))

\* C18: the mimetype of a Success response is text/gemini when a directory
\* index is served, and also when a file is served whose name has no
\* extension or an extension that is not UTF-8; otherwise it is the table's
\* type for the extension in lowercase, application/octet-stream when the
\* table has no such extension.  The status line names that type.
C18_MimeType ==
    Served =>
        /\ NamesMime
        /\ response.mimetype =
              IF index[ReqKey].is_index THEN TEXT_GEMINI
              ELSE IF extension(ReqKey) = <<>> THEN TEXT_GEMINI
              ELSE IF ~from_utf8_ok(extension(ReqKey)[1]) THEN TEXT_GEMINI
              ELSE MimeTable(str_to_ascii_lowercase(extension(ReqKey)[1]))
        /\ index[ReqKey].is_index => response.mimetype = TEXT_GEMINI
        /\ ~index[ReqKey].is_index =>
              /\ ReqName \in {A_TXT, A_TXT_UPPER} => response.mimetype = TEXT_PLAIN
              /\ ReqName = B_XYZ => response.mimetype = OCTET_STREAM
              /\ ReqName \in {N_FILE, DOT_TXT, A_FF, INDEX_GMI}
                    => response.mimetype = TEXT_GEMINI

\* A.TXT was served as text/plain in full
C18_Witness ==
    /\ Served
    /\ ReqName = A_TXT_UPPER
    /\ response.mimetype = TEXT_PLAIN
    /\ copied = "ok"
    /\ out = <<50, 48, 32, 116, 101, 120, 116, 47, 112, 108, 97, 105, 110, 13, 10, 98, 10>>  \* "20 text/plain\r\nb\n"
    /\ close_notify


(***************************************************************************)
(* Termination of a connection's task (SpecLive).                          *)
(***************************************************************************)
\* C19 as it is stated: the task of every accepted connection terminates,
\* however the peer and the archive behave.
C19_AsStated == <>(pc = "done")

\* in each state of the task but the pending open of an entry, a deadline is
\* armed or the task has a step that waits for nothing
C19_Armed ==
    /\ pc = "accept" => ENABLED AcceptFail
    /\ pc = "parse_req" => ENABLED HeaderTimeout
    /\ pc = "dispatch" => ENABLED Dispatch
    /\ pc = "send" => ENABLED SendTimeout
    /\ pc = "copied" => ENABLED Shutdown
    /\ pc = "open" => ~ENABLED (AcceptFail \/ HeaderTimeout \/ SendTimeout)

\* C19: the handshake, the header read, and the response write with the
\* close are each bounded by a deadline, and the dispatch up to the open of
\* the entry waits for nothing; the open of the entry (reader_with_entry in
\* get_file) is awaited under no deadline.  So the task of a connection
\* terminates, however the peer behaves, provided the open of the entry does
\* not stay pending for ever.
C19_Termination ==
    /\ []C19_Armed
    /\ <>[](pc # "open") => <>(pc = "done")

\* a task that opened an entry and came to its end by the deadline of
\* send_response
C19_Witness ==
    /\ opened # <<>>
    /\ copied = "cancelled"
    /\ pc = "done"
    /\ ~close_notify
    /\ out # <<>>


(***************************************************************************)
(* Independence of the connections (SpecTwo).                              *)
(***************************************************************************)
\* the request lines parse_req can take from the bytes w of a peer: what
\* precedes a CRLF of w
LinesOf(w) == { Slice(w, 1, i - 1) : i \in CrlfAt(w) }

\* the responses get_file can give for a parse result, by the index built at
\* startup; the entry may fail to open
Answers(rq) ==
    IF ~rq.ok THEN {Failure(rq.err)}
    ELSE LET g == get_file_lookup(from_zip(zip), rq.val)
         IN  IF g.done THEN {g.response}
             ELSE {Failure("BadEntry"), with_type(g.mimetype, zip[g.id + 1].data)}

\* the responses a connection can be given: by its own bytes and the index
\* built at startup, or for its own deadline or failed read
Outcomes(c) ==
    {Failure("Timeout"), Failure("HeaderTooLong")}
        \cup UNION { Answers(RequestParse(l, c.server_name)) : l \in LinesOf(c.wire) }

\* what is written to a connection is of its own response
OwnBytes(c) ==
    /\ c.response = NoResponse => c.out = <<>>
    /\ c.response # NoResponse => c.out = Slice(Whole(c.response), 1, Len(c.out))

\* C20: in every interleaving of the steps of two tasks, the index and the
\* archive stay as they were built at startup; a step of one task changes
\* nothing of the other task's connection; the response a task makes is one
\* that its own request bytes and the startup index give (or the failure of
\* its own deadline, read or entry open), whatever the other task did before,
\* and the bytes written to a connection are those of its own response.
C20_Independence ==
    /\ [](index = from_zip(zip) /\ OwnBytes(Conn) /\ OwnBytes(spawned[1]))
    /\ [][zip' = zip /\ index' = index]_vars
    /\ [][spawned' = spawned \/ (Resume /\ Conn' = spawned[1] /\ spawned' = <<Conn>>)]_vars
    /\ [][response' = response \/ Resume \/ response' \in Outcomes(Conn)]_vars

\* one task was answered "51 not found\r\n" in full after the other task's
\* entry failed to open
C20_Witness ==
    /\ spawned[1].response = Failure("BadEntry")
    /\ spawned[1].pc = "done"
    /\ wire = Line(Get(<<47, 110>>))
    /\ pc = "done"
    /\ out = NOT_FOUND_LINE
    /\ close_notify


(***************************************************************************)
(* Properties of the handshake's failure (Spec).                           *)
(***************************************************************************)
\* the task ended without handle_connection: nothing was read, parsed,
\* opened, made a response of, written or shut down
Dropped ==
    /\ pc = "done"
    /\ len = 0
    /\ request = Err("")
    /\ opened = <<>>
    /\ response = NoResponse
    /\ reader = NoReader
    /\ out = <<>>
    /\ copied = ""
    /\ ~close_notify

\* C21: when the handshake of an accepted socket fails or its 10 s deadline
\* expires, the task returns at once: handle_connection is not entered, so
\* no byte is read from the peer, no response is made, not even the Timeout
\* failure, and no byte is written; the task takes no step afterwards.  Every
\* task that entered handle_connection has a response when it ends.
C21_HandshakeFailure ==
    /\ [](pc = "done" /\ response = NoResponse => Dropped)
    /\ [][AcceptFail => pc = "accept" /\ Dropped']_vars
    /\ [][pc = "done" => UNCHANGED vars]_vars
    /\ [][pc = "parse_req" /\ pc' = "done" => response' # NoResponse]_vars

\* the handshake failed with a peer that had a whole request line to send
C21_Witness ==
    /\ Dropped
    /\ wire = Line(Get(<<47>> \o A_TXT))
    /\ server_name = <<HOST_H>>


(***************************************************************************)
(* Properties of Request::parse on line endings (SpecNewline).             *)
(***************************************************************************)
\* the input holds a CR or an LF
HasNewline == \E i \in 1..Len(wire) : wire[i] \in {13, 10}

\* C22 as it is stated: UnparseableUri for every input that holds a CR or an
\* LF.
C22_AsStated ==
    pc = "parsed" /\ HasNewline => request = Err("UnparseableUri")

\* C22: Request::parse accepts no input that holds a CR or an LF, in the
\* scheme, the authority, the path, the query or the fragment: it returns
\* UnparseableUri when the input is UTF-8 and NonUtf8 when it is not; both
\* have the status line "59 cannot parse url\r\n".
C22_NoNewlines ==
    pc = "parsed" /\ HasNewline =>
        /\ ~request.ok
        /\ request.err = IF from_utf8_ok(wire) THEN "UnparseableUri" ELSE "NonUtf8"
        /\ StatusLine(request.err) = StatusLine("UnparseableUri")

\* "gemini://h/" LF "a" was parsed for a connection that claimed host h
C22_Witness ==
    /\ pc = "parsed"
    /\ wire = Insert(Get(<<47, 97>>), Len(Get(<<47>>)), 10)
    /\ server_name = <<HOST_H>>
    /\ request = Err("UnparseableUri")


(***************************************************************************)
(* Properties of the reader's switch from header to body (SpecReader).     *)
(***************************************************************************)
\* the read into a buffer with cap bytes left finds the header source
\* yielding no byte
HeaderYieldsNone(cap) == CursorRead(reader.first, reader.pos, cap) = <<>>

\* this step is the switch from the header source to the body source
Switch == ~reader.done_first /\ reader'.done_first

\* C23: a Chain reader switches from its header source to its body source
\* at most once, and it does so at a read on which the header source yields
\* no byte, and at every such read; once it switched, the header source's
\* position never moves again; until it switches, the body source's position
\* stays at its start and a read yields header bytes only.  A Single reader
\* never switches.
C23_SwitchOnce ==
    /\ [](~reader.done_first => reader.bpos = 0)
    /\ [](reader.variant = "Single" => ~reader.done_first)
    /\ [][reader.done_first => reader'.done_first /\ reader'.pos = reader.pos]_vars
    /\ [][Switch => /\ reader.variant = "Chain"
                    /\ \E cap \in 0..MaxCap, n \in 1..MaxChunk :
                          PollRead(cap, n) /\ HeaderYieldsNone(cap)]_vars
    /\ [][\A cap \in 0..MaxCap, n \in 1..MaxChunk :
            PollRead(cap, n) /\ reader.variant = "Chain" /\ ~reader.done_first =>
                IF HeaderYieldsNone(cap)
                THEN reader'.done_first
                ELSE /\ ~reader'.done_first
                     /\ reader'.bpos = 0
                     /\ out' = out \o CursorRead(reader.first, reader.pos, cap)]_vars

\* a Success reader that took its whole header, switched, and is amid its
\* body
C23_Witness ==
    /\ pc = "read"
    /\ reader.variant = "Chain"
    /\ reader.done_first
    /\ reader.pos = Len(reader.first)
    /\ reader.bpos \in 1..(Len(reader.second) - 1)


(***************************************************************************)
(* Properties of the end of the header read (Spec).                        *)
(***************************************************************************)
\* the bytes in parse_req's buffer after a read of count bytes
Received(count) == Slice(wire, 1, len + count)

\* C24 as it is stated: parse_req reads on only while no CRLF is among the
\* bytes received so far.
C24_AsStated ==
    [][pc = "parse_req" /\ pc' = "parse_req" => CrlfAt(Slice(wire, 1, len')) = {}]_vars

\* C24: the header read of parse_req ends, and Request::parse is given the
\* bytes before the terminator, as soon as the bytes received so far end with
\* CRLF after a read, for every way the peer's bytes are split into reads.
\* A CRLF that a read delivers together with bytes that follow it does not
\* end the header read: parse_req reads on, and is answered HeaderTooLong at
\* the end of the peer's bytes unless a later read ends with CRLF.
C24_TerminatorAtEnd ==
    /\ [][pc = "parse_req" /\ pc' = "parse_req" =>
             len' > len /\ ~ends_with(Slice(wire, 1, len'), CRLF)]_vars
    /\ [][\A count \in 1..Len(wire) :
            Read(count) =>
                IF ends_with(Received(count), CRLF)
                THEN /\ pc' = "dispatch"
                     /\ request' = RequestParse(Slice(wire, 1, len + count - 2),
                                                expect_host)
                ELSE pc' = "parse_req" /\ len' = len + count]_vars
    /\ [][pc = "parse_req" /\ pc' = "dispatch" /\ ~ends_with(wire, CRLF)
            /\ (\A count \in 1..(Len(wire) - len) : ~ends_with(Received(count), CRLF))
            => request' = Err("HeaderTooLong")]_vars

\* a read delivered the CRLF of "gemini://h/" together with the bytes "xx"
\* that follow it, and the connection was answered "59 header too long\r\n"
C24_Witness ==
    /\ wire = Line(Get(<<47>>)) \o <<120, 120>>
    /\ request = Err("HeaderTooLong")
    /\ pc = "done"
    /\ out = HEADER_TOO_LONG_LINE
    /\ close_notify


(***************************************************************************)
(* Properties of the redirect (SpecRedirect).                              *)
(***************************************************************************)
\* the request for the target of the redirect, as the same peer would send
\* it on a new connection
Followed == RequestParse(as_str(response.to), expect_host)

\* C25: when get_file answers a request with a permanent redirect, the
\* target is the request with '/' added to its path; a request for the
\* target is accepted, its decoded path ends with '/', it names the same
\* index key, and get_file does not answer it with a redirect: it opens the
\* entry of the directory's index.  This holds for paths with a doubled
\* slash, a "." segment, and percent-encoded letters and slashes.
C25_NoRedirectLoop ==
    response.kind = "PermanentRedirect" =>
        /\ as_str(response.to) = as_str(request.val) \o <<47>>
        /\ Followed.ok
        /\ trailing(pathname(Followed.val))
        /\ Components(RootJoin(pathname(Followed.val))) = ReqKey
        /\ ~get_file_lookup(index, Followed.val).done
        /\ get_file_lookup(index, Followed.val).id = index[ReqKey].id
        /\ get_file_lookup(index, Followed.val).mimetype = TEXT_GEMINI

\* the request for /a.txt%2F. was redirected to /a.txt%2F./
C25_Witness ==
    /\ response.kind = "PermanentRedirect"
    /\ request.val.path = <<47>> \o A_TXT \o <<37, 50, 70, 46>>
    /\ pc = "done"
    /\ out = RedirectBytes(Get(<<47>> \o A_TXT \o <<37, 50, 70, 46, 47>>))
    /\ close_notify


(***************************************************************************)
(* One request line and one response for a connection (Spec).              *)
(***************************************************************************)
\* send_response was called
Sending == pc \in {"send", "copied", "done"} /\ response # NoResponse

\* C26: on every path through handle_connection a connection is given at
\* most one response: send_response is called at most once, with a response
\* that never changes afterwards; the bytes written are the first bytes of
\* that one response, so at most one status line is written; and after
\* parse_req returned or timed out the task never reads from the peer again,
\* also when the peer sent bytes after its first line.
C26_SingleResponse ==
    /\ [](response = NoResponse => out = <<>> /\ reader = NoReader)
    /\ [](response # NoResponse =>
            /\ Sending
            /\ out = Slice(Whole(response), 1, Len(out))
            /\ reader.first = into_read(response).first)
    /\ [][response # NoResponse => response' = response]_vars
    /\ [][pc' = "send" /\ pc # "send" =>
            /\ pc \in {"parse_req", "dispatch", "open"}
            /\ response = NoResponse
            /\ out = <<>>]_vars
    /\ [][pc \notin {"accept", "parse_req"} =>
            pc' # "parse_req" /\ len' = len /\ request' = request]_vars
    /\ [][(pc \in {"copied", "done"}) => pc' = "done"]_vars

\* the peer sent "xx" after the line of its request for the root; the root's
\* index was sent in full, once, and the stream shut down
C26_Witness ==
    /\ wire = Line(Get(<<47>>)) \o <<120, 120>>
    /\ request.ok
    /\ response.kind = "Success"
    /\ pc = "done"
    /\ out = Whole(response)
    /\ close_notify


(***************************************************************************)
(* Properties of done_first and of reads without room (SpecReader).        *)
(***************************************************************************)
\* every byte of the header source was delivered to the caller
HeaderDelivered ==
    /\ reader.pos = Len(reader.first)
    /\ Len(out) >= Len(reader.first)
    /\ Slice(out, 1, Len(reader.first)) = reader.first

\* C27 as it is stated: done_first becomes true only after every header byte
\* was delivered, whatever the capacities of the reads, and a read into a
\* buffer without room leaves the reader as it was.
C27_AsStated ==
    [][/\ Switch => HeaderDelivered
       /\ (\E n \in 1..MaxChunk : PollRead(0, n)) => reader' = reader]_vars

\* C27: at a read into a buffer with room, done_first becomes true only
\* after every byte of the header source was delivered, and no header byte is
\* skipped.  A read into a buffer without room yields no byte and moves no
\* position, but it sets done_first of a Chain reader that had not switched;
\* when header bytes were left at that read they are never delivered.  Such
\* a read leaves a Single reader and a Chain reader that had switched as they
\* were.
C27_DoneFirst ==
    /\ [][(\E cap \in 1..MaxCap, n \in 1..MaxChunk : PollRead(cap, n)) /\ Switch
            => HeaderDelivered /\ InOrder']_vars
    /\ [][(\E n \in 1..MaxChunk : PollRead(0, n)) =>
            /\ out' = out
            /\ reader' = [reader EXCEPT !.done_first = (reader.variant = "Chain")]]_vars
    /\ [][reader.done_first /\ reader.pos < Len(reader.first) =>
            reader'.pos = reader.pos /\ ~HeaderDelivered']_vars

\* a Success reader without body that delivered its status line by reads
\* with room and then switched
C27_Witness ==
    /\ pc = "read"
    /\ response = with_type(TEXT_GEMINI, <<>>)
    /\ reader.done_first
    /\ HeaderDelivered
    /\ out = reader.first


(***************************************************************************)
(* Properties of the end of the response's stream (Spec).                  *)
(***************************************************************************)
\* C28: a read of copy, which is always into a buffer with room, yields no
\* byte only when the whole response was produced: the read that finds the
\* header exhausted goes on to the body in the same call and yields body
\* bytes when the body is not empty, so copy ends with Ok only with the status
\* line and the whole body written.
C28_EndOfStream ==
    /\ [](pc = "send" => InOrder)
    /\ [](copied = "ok" => out = Whole(response))
    /\ [][\A cap \in 1..MaxCap, n \in 1..MaxChunk :
            Copy(cap, n) =>
                /\ out' = out => out = Whole(response) /\ copied' = "ok"
                /\ out' # out => pc' = "send" /\ copied' = ""
                /\ Switch /\ response.body # <<>> =>
                      /\ reader'.bpos >= 1
                      /\ out' = out \o Slice(response.body, 1, reader'.bpos)]_vars

\* copy ended with Ok for a Success with a body, all of it written, and
\* shutdown is not yet called
C28_Witness ==
    /\ response.kind = "Success"
    /\ response.body # <<>>
    /\ pc = "copied"
    /\ copied = "ok"
    /\ out = into_read(response).first \o response.body
    /\ ~close_notify

====
